---- MODULE Spec2Model ----
(***************************************************************************)
(* mix-memory: a Library of Tracks (track id -> Track), a TrackNetwork     *)
(* (a networkx DiGraph over track ids, with a reference to a Library) and  *)
(* the calls a client can make on them.  A state is the objects' fields;   *)
(* every action is one call, and `result` records that call: its name,     *)
(* its arguments and the exception it raised (None when it returned).      *)
(***************************************************************************)
EXTENDS Integers, Sequences, FiniteSets, TLC

VARIABLES
    track_map,   \* Library.track_map of the library under use (the network's library)
    graph,       \* TrackNetwork._graph: [nodes, edges] of the DiGraph
    result,      \* the last call: op, arguments, raised, returned
    library_table,      \* the rows of table `library` of the SQLite file, in rowid order
    connections_table   \* the rows of table `connections`, in rowid order

vars == <<track_map, graph, result, library_table, connections_table>>

\* the SQLite file
store == <<library_table, connections_table>>

(***************************************************************************)
(* Bounds of the model.                                                    *)
(***************************************************************************)
MaxId == 2          \* track ids are 1..MaxId
MaxConnections == 1 \* longest connections list given to a constructor
MaxTrackList == 1   \* longest track list given to from_track_list
MaxOther == 1       \* most entries of the library given to extend
MaxEdges == 1       \* most edges of a graph handed to TrackNetwork or add_connection
MaxRows == 4        \* most rows of a table of the store
MaxPlays == 3       \* most lines of a playlist file
MaxDate == 2        \* the days a history file name can carry are 1..MaxDate
MaxFiles == 2       \* most .m3u8 files of a histories directory
MaxPlaylists == 2   \* most playlists handed to the survey

Ids == 1..MaxId

Artists == {"A", "B"}
Titles == {"X", "Y"}

\* library.py:10-14  Track(NamedTuple): artist, title; equality is structural
Track(artist, title) == [artist |-> artist, title |-> title]

Tracks == {Track(a, t) : a \in Artists, t \in Titles}

\* Python's None, as the value of `raised` when a call returned normally
None == "None"

(***************************************************************************)
(* A Python dict of track ids to tracks: a sequence of entries with        *)
(* distinct ids, in insertion order.                                       *)
(***************************************************************************)
Entry(id, track) == [id |-> id, track |-> track]

Keys(d) == {d[i].id : i \in 1..Len(d)}

RECURSIVE KeyList(_)
\* list(d.keys()): the keys in insertion order
KeyList(d) == IF d = <<>> THEN <<>> ELSE <<Head(d).id>> \o KeyList(Tail(d))

Values(d) == {d[i].track : i \in 1..Len(d)}

\* d[k] for a key k of d
Get(d, k) == (CHOOSE e \in {d[i] : i \in 1..Len(d)} : e.id = k).track

RECURSIVE Replace(_, _, _)
\* the entries of d, with the value under the present key k replaced by v
Replace(d, k, v) ==
    IF d = <<>> THEN <<>>
    ELSE <<IF Head(d).id = k THEN Entry(k, v) ELSE Head(d)>> \o Replace(Tail(d), k, v)

\* d[k] = v: a new key is appended, a present key keeps its position
Put(d, k, v) ==
    IF k \in Keys(d) THEN Replace(d, k, v) ELSE Append(d, Entry(k, v))

\* del d[k]
Del(d, k) == SelectSeq(d, LAMBDA e : e.id # k)

RECURSIVE Update(_, _)
\* d.update(other): other's entries in other's order
Update(d, other) ==
    IF other = <<>> THEN d
    ELSE Update(Put(d, Head(other).id, Head(other).track), Tail(other))

RECURSIVE DictsOver(_)
\* every dict whose key set is S, in every insertion order
DictsOver(S) ==
    IF S = {} THEN {<<>>}
    ELSE UNION {{Append(d, Entry(k, t)) : d \in DictsOver(S \ {k}), t \in Tracks} : k \in S}

TrackMaps == UNION {DictsOver(S) : S \in SUBSET Ids}

\* Library.__init__ (library.py:39-49): track_map=None gives the empty dict
Library(track_map_arg) == track_map_arg

(***************************************************************************)
(* Track identity.                                                         *)
(***************************************************************************)
\* library.py:16-21  the getter builds the md5 input and then ASSIGNS to
\* self.hash8; Track is a NamedTuple and hash8 a property without a setter,
\* so the assignment raises AttributeError and no value is ever returned.
hash8(track) ==
    LET key == <<track.artist, track.title>>
    IN  [raised |-> "AttributeError", value |-> 0]

(***************************************************************************)
(* Library.                                                                *)
(***************************************************************************)
RECURSIVE BuildTrackMap(_, _)
\* library.py:55  {track.hash8: track for track in track_list}
BuildTrackMap(d, track_list) ==
    IF track_list = <<>> THEN [raised |-> None, track_map |-> d]
    ELSE LET h == hash8(Head(track_list))
         IN  IF h.raised # None
             THEN [raised |-> h.raised, track_map |-> <<>>]
             ELSE BuildTrackMap(Put(d, h.value, Head(track_list)), Tail(track_list))

\* library.py:51-56
from_track_list(track_list) == BuildTrackMap(<<>>, track_list)

\* add_track without the test of library.py:101
add_track_unchecked(d, track) ==
    LET h == hash8(track)
    IN  IF h.raised # None
        THEN [raised |-> h.raised, track_map |-> d]
        ELSE [raised |-> None, track_map |-> Put(d, h.value, track)]

\* library.py:92-105
add_track(d, track) ==
    IF track \in Values(d)
    THEN [raised |-> "DuplicateTrackError", track_map |-> d]
    ELSE LET h == hash8(track)
         IN  IF h.raised # None
             THEN [raised |-> h.raised, track_map |-> d]
             ELSE [raised |-> None, track_map |-> Put(d, h.value, track)]

\* remove_track_by_id as dict.pop(track_id, None): silent for a missing id
remove_track_by_id_silent(d, track_id) ==
    [raised |-> None, track_map |-> Del(d, track_id)]

\* library.py:107-116
remove_track_by_id(d, track_id) ==
    IF track_id \notin Keys(d)
    THEN [raised |-> "MissingTrackError", track_map |-> d]
    ELSE [raised |-> None, track_map |-> Del(d, track_id)]

\* library.py:131-142  the first entry, in dict order, with that artist and title
get_track_id_from_artist_title(d, artist, title) ==
    LET hits == {i \in 1..Len(d) : d[i].track.artist = artist /\ d[i].track.title = title}
    IN  IF hits = {}
        THEN [raised |-> "MissingTrackError", returned |-> 0]
        ELSE [raised |-> None,
              returned |-> d[CHOOSE i \in hits : \A j \in hits : i <= j].id]

\* library.py:144-148
get_track_id_from_track(d, track) ==
    get_track_id_from_artist_title(d, track.artist, track.title)

\* library.py:118-125
remove_track(d, track) ==
    LET found == get_track_id_from_track(d, track)
    IN  IF found.raised # None
        THEN [raised |-> found.raised, track_map |-> d]
        ELSE remove_track_by_id(d, found.returned)

\* library.py:150-154  a new Library; self.track_map is copied, not changed
extend(d, other) == Library(Update(d, other))

\* extend without the copy of line 152: self.track_map itself is updated
extend_call_in_place(d, other) ==
    LET merged_track_map == Update(d, other)
    IN  [returned |-> Library(merged_track_map), self |-> merged_track_map, other |-> other]

\* library.py:150-154 with the two arguments as the call leaves them: the
\* update is applied to a copy of self.track_map, and other is only read
extend_call(d, other) ==
    LET merged_track_map == Update(d, other)
    IN  [returned |-> Library(merged_track_map), self |-> d, other |-> other]

\* library.py:80-81  self.track_map[id]: a dict raises KeyError for a missing key
getitem(d, track_id) ==
    IF track_id \in Keys(d)
    THEN [raised |-> None, returned |-> Get(d, track_id)]
    ELSE [raised |-> "KeyError", returned |-> Track("", "")]

\* library.py:127-129
get_track(d, track_id) == getitem(d, track_id)

(***************************************************************************)
(* networkx.DiGraph, as far as track_network.py uses it.                   *)
(***************************************************************************)
\* A DiGraph keeps its nodes and, per node, its successors in dicts, so both
\* come back in insertion order: `nodes` is the sequence G.nodes() yields and
\* `edges` the sequence G.edges() yields (the edges of the first node in the
\* order they were added, then those of the second node, and so on).
DiGraph == [nodes |-> <<>>, edges |-> <<>>]

\* the nodes and the edges as sets
Nodes(G) == {G.nodes[i] : i \in 1..Len(G.nodes)}

Edges(G) == {G.edges[i] : i \in 1..Len(G.edges)}

\* the place of node n in G.nodes()
NodeIndex(G, n) == CHOOSE i \in 1..Len(G.nodes) : G.nodes[i] = n

\* DiGraph.add_node: a new node comes last, a known node stays where it is
add_node(G, n) ==
    IF n \in Nodes(G) THEN G ELSE [nodes |-> Append(G.nodes, n), edges |-> G.edges]

\* DiGraph.add_edge adds the end points that are not nodes yet, u before v;
\* a new edge comes last among the edges of u, a known edge stays where it is
add_edge(G, u, v) ==
    LET g1 == add_node(add_node(G, u), v)
    IN  IF <<u, v>> \in Edges(g1) THEN g1
        ELSE [nodes |-> g1.nodes,
              edges |-> SelectSeq(g1.edges,
                            LAMBDA e : NodeIndex(g1, e[1]) <= NodeIndex(g1, u))
                        \o << <<u, v>> >>
                        \o SelectSeq(g1.edges,
                               LAMBDA e : NodeIndex(g1, e[1]) > NodeIndex(g1, u))]

\* DiGraph.remove_edge raises NetworkXError when the edge is not in the graph
remove_edge(G, u, v) ==
    IF <<u, v>> \in Edges(G)
    THEN [raised |-> None,
          graph |-> [nodes |-> G.nodes,
                     edges |-> SelectSeq(G.edges, LAMBDA e : e # <<u, v>>)]]
    ELSE [raised |-> "NetworkXError", graph |-> G]

number_of_edges(G) == Len(G.edges)

number_of_nodes(G) == Len(G.nodes)

(***************************************************************************)
(* TrackNetwork.                                                           *)
(***************************************************************************)
\* track_network.py:92-94
n_connections(G) == number_of_edges(G)

\* track_network.py:88-90
n_tracks(G) == number_of_nodes(G)

\* track_network.py:104-106 (and 120-122): the loop over [source, target]
\* raises ValueError for the first id that is not a node
CheckTrackIds(G, source_track_id, target_track_id) ==
    IF source_track_id \notin Nodes(G) THEN "ValueError"
    ELSE IF target_track_id \notin Nodes(G) THEN "ValueError"
    ELSE None

\* add_connection with the id test applied to the source alone
add_connection_source_only(G, source_track_id, target_track_id, bidirectional) ==
    IF source_track_id \notin Nodes(G)
    THEN [raised |-> "ValueError", graph |-> G]
    ELSE LET g1 == add_edge(G, source_track_id, target_track_id)
         IN  [raised |-> None,
              graph |-> IF bidirectional
                        THEN add_edge(g1, target_track_id, source_track_id)
                        ELSE g1]

\* add_connection without lines 110-112
add_connection_one_way(G, source_track_id, target_track_id, bidirectional) ==
    IF CheckTrackIds(G, source_track_id, target_track_id) # None
    THEN [raised |-> "ValueError", graph |-> G]
    ELSE [raised |-> None, graph |-> add_edge(G, source_track_id, target_track_id)]

\* add_connection adding the reverse edge whatever `bidirectional` is
add_connection_both_ways(G, source_track_id, target_track_id, bidirectional) ==
    IF CheckTrackIds(G, source_track_id, target_track_id) # None
    THEN [raised |-> "ValueError", graph |-> G]
    ELSE [raised |-> None,
          graph |-> add_edge(add_edge(G, source_track_id, target_track_id),
                             target_track_id, source_track_id)]

\* add_connection treating an edge that is already present as an error
add_connection_rejects_duplicate(G, source_track_id, target_track_id, bidirectional) ==
    IF CheckTrackIds(G, source_track_id, target_track_id) # None
       \/ <<source_track_id, target_track_id>> \in Edges(G)
    THEN [raised |-> "ValueError", graph |-> G]
    ELSE LET g1 == add_edge(G, source_track_id, target_track_id)
         IN  [raised |-> None,
              graph |-> IF bidirectional
                        THEN add_edge(g1, target_track_id, source_track_id)
                        ELSE g1]

\* track_network.py:96-112
add_connection(G, source_track_id, target_track_id, bidirectional) ==
    IF CheckTrackIds(G, source_track_id, target_track_id) # None
    THEN [raised |-> "ValueError", graph |-> G]
    ELSE LET g1 == add_edge(G, source_track_id, target_track_id)
         IN  [raised |-> None,
              graph |-> IF bidirectional
                        THEN add_edge(g1, target_track_id, source_track_id)
                        ELSE g1]

\* remove_connection as a silent discard, without the id test
remove_connection_discard(G, source_track_id, target_track_id) ==
    [raised |-> None,
     graph |-> [nodes |-> G.nodes,
                edges |-> SelectSeq(G.edges,
                              LAMBDA e : e # <<source_track_id, target_track_id>>)]]

\* remove_connection taking the reverse edge away as well
remove_connection_both_ways(G, source_track_id, target_track_id) ==
    IF CheckTrackIds(G, source_track_id, target_track_id) # None
    THEN [raised |-> "ValueError", graph |-> G]
    ELSE LET removed == remove_edge(G, source_track_id, target_track_id)
         IN  IF removed.raised # None THEN removed
             ELSE [raised |-> None,
                   graph |-> [nodes |-> G.nodes,
                              edges |-> SelectSeq(removed.graph.edges,
                                  LAMBDA e : e # <<target_track_id, source_track_id>>)]]

\* track_network.py:114-124
remove_connection(G, source_track_id, target_track_id) ==
    IF CheckTrackIds(G, source_track_id, target_track_id) # None
    THEN [raised |-> "ValueError", graph |-> G]
    ELSE remove_edge(G, source_track_id, target_track_id)

\* the keys of library.track_map, as line 65 would read with track_map for tracks
library_tracks_keys_of_mapping(library) ==
    [raised |-> None, value |-> KeyList(library)]

\* track_network.py:65  `library.tracks.keys()`: Library.tracks is a method
\* (library.py:86-87), not the mapping, and a method has no attribute `keys`
library_tracks_keys(library) ==
    [raised |-> "AttributeError", value |-> <<>>]

RECURSIVE AddNodes(_, _)
\* track_network.py:65-66
AddNodes(G, ids) ==
    IF ids = <<>> THEN G
    ELSE AddNodes(add_node(G, Head(ids)), Tail(ids))

RECURSIVE AddEdges(_, _)
\* track_network.py:70-71
AddEdges(G, connections) ==
    IF connections = <<>> THEN G
    ELSE AddEdges(add_edge(G, Head(connections)[1], Head(connections)[2]),
                  Tail(connections))

\* track_network.py:49-73  `connections` is <<>> for None and <<list>> for a list
from_library_and_connections(library, connections) ==
    LET keys == library_tracks_keys(library)
    IN  IF keys.raised # None
        THEN [raised |-> keys.raised, graph |-> DiGraph, library |-> library]
        ELSE LET g1 == AddNodes(DiGraph, keys.value)
             IN  [raised |-> None,
                  graph |-> IF connections # <<>> THEN AddEdges(g1, connections[1]) ELSE g1,
                  library |-> library]

\* track_network.py:75-78
from_library(library) == from_library_and_connections(library, <<>>)

\* cli.py:145 and example.py:103 call track_network.get_connected_track_ids;
\* class TrackNetwork (track_network.py:30-125) defines no such attribute
get_connected_track_ids(G, track_id) ==
    [raised |-> "AttributeError", returned |-> <<>>]

\* track_network.py:84-86  TrackIdConnections(list(self._graph.edges())); the
\* validation of lines 21-25 accepts every pair of integers
TrackNetwork_connections(G) == G.edges

\* track_network.py:80-82  list(self._graph.nodes())
track_ids(G) == G.nodes

(***************************************************************************)
(* The store: database.py.                                                 *)
(***************************************************************************)
\* database.py:18-26  both tables are dropped and created empty
create_tables == [library |-> <<>>, connections |-> <<>>]

\* what the user does at a Confirm.ask prompt: "y", "n", the input ends, or
\* Ctrl+C (any other answer is asked again)
ConfirmReplies == {"y", "n", "EOF", "Ctrl+C"}

\* cli.py:64, 270, 281  Confirm.ask: True for "y", False for "n"; input()
\* raises EOFError when the input ends and KeyboardInterrupt on Ctrl+C
Confirm_ask(reply) ==
    [raised |-> IF reply = "EOF" THEN "EOFError"
                ELSE IF reply = "Ctrl+C" THEN "KeyboardInterrupt"
                ELSE None,
     returned |-> reply = "y"]

\* cli.py:36-49  a command of the click group: click turns an EOFError or a
\* KeyboardInterrupt that leaves the command into Abort
Standalone(command) ==
    IF command.raised \in {"EOFError", "KeyboardInterrupt"}
    THEN [command EXCEPT !.raised = "Abort"]
    ELSE command

\* cli.py:59-70  init_db: without --force the command asks first, and ends
\* with Abort when the answer is no (cli.py:63-67) or the prompt is ended by
\* the end of the input or Ctrl+C (click turns either into Abort); else both
\* tables are dropped and created again
init_db(lib_table, conn_table, force, reply) ==
    IF ~force /\ reply # "y"
    THEN [raised |-> "Abort", tables |-> [library |-> lib_table, connections |-> conn_table]]
    ELSE [raised |-> None, tables |-> create_tables]

\* database.py:35-44  SELECT *: one dict per row, in rowid order
from_sqlite(table) == table

RECURSIVE LibraryRows(_)
\* database.py:56-62
LibraryRows(d) ==
    IF d = <<>> THEN <<>>
    ELSE <<[id |-> Head(d).id, artist |-> Head(d).track.artist,
            title |-> Head(d).track.title]>> \o LibraryRows(Tail(d))

\* database.py:56-62  LibraryData.from_library
LibraryData_from_library(d) == LibraryRows(d)

RECURSIVE RowsToTrackMap(_, _)
\* database.py:66-69  {row["id"]: Track(artist=row["artist"], title=row["title"]) ...}
RowsToTrackMap(d, rows) ==
    IF rows = <<>> THEN d
    ELSE RowsToTrackMap(Put(d, Head(rows).id, Track(Head(rows).artist, Head(rows).title)),
                        Tail(rows))

RECURSIVE SwapColumns(_)
SwapColumns(rows) ==
    IF rows = <<>> THEN <<>>
    ELSE <<[id |-> Head(rows).id, artist |-> Head(rows).title,
            title |-> Head(rows).artist]>> \o SwapColumns(Tail(rows))

\* to_library with the two columns taken for each other
LibraryData_to_library_swapped(rows) == Library(RowsToTrackMap(<<>>, SwapColumns(rows)))

\* database.py:64-70  LibraryData.to_library
LibraryData_to_library(rows) == Library(RowsToTrackMap(<<>>, rows))

\* database.py:72-81  LibraryData.to_sqlite: one INSERT per row, then commit
LibraryData_to_sqlite(table, rows) == table \o rows

RECURSIVE ConnectionRows(_)
\* database.py:87-96  ConnectionsData.from_connections
ConnectionRows(conns) ==
    IF conns = <<>> THEN <<>>
    ELSE <<[source_track_id |-> Head(conns)[1], target_track_id |-> Head(conns)[2]]>>
         \o ConnectionRows(Tail(conns))

ConnectionsData_from_connections(conns) == ConnectionRows(conns)

RECURSIVE RowsToConnections(_)
\* database.py:98-101  ConnectionsData.to_connections
RowsToConnections(rows) ==
    IF rows = <<>> THEN <<>>
    ELSE <<<<Head(rows).source_track_id, Head(rows).target_track_id>>>>
         \o RowsToConnections(Tail(rows))

ConnectionsData_to_connections(rows) == RowsToConnections(rows)

\* database.py:103-113  ConnectionsData.to_sqlite: one INSERT per row, then commit
ConnectionsData_to_sqlite(table, rows) == table \o rows

\* cli.py:22-28
load_track_network_from_db(lib_table, conn_table) ==
    from_library_and_connections(
        LibraryData_to_library(from_sqlite(lib_table)),
        <<ConnectionsData_to_connections(from_sqlite(conn_table))>>)

\* cli.py:31-35  the rows of the whole network are inserted after the rows
\* the tables hold
save_track_network_to_db(lib_table, conn_table, G, d) ==
    [library |-> LibraryData_to_sqlite(lib_table, LibraryData_from_library(d)),
     connections |-> ConnectionsData_to_sqlite(conn_table,
                         ConnectionsData_from_connections(TrackNetwork_connections(G)))]

\* add_track writing the stored library's rows again before it loads the
\* network
cli_add_track_save_first(lib_table, conn_table, artist, title) ==
    LET library == LibraryData_to_library(from_sqlite(lib_table))
        saved == [library |-> LibraryData_to_sqlite(lib_table,
                                  LibraryData_from_library(library)),
                  connections |-> conn_table]
        track_network == load_track_network_from_db(lib_table, conn_table)
    IN  IF track_network.raised # None
        THEN [raised |-> track_network.raised, tables |-> saved]
        ELSE [raised |-> add_track(track_network.library, Track(artist, title)).raised,
              tables |-> saved]

\* cli.py:73-83  add_track: load, add the track to the library, save; an
\* exception ends the command before the save
cli_add_track(lib_table, conn_table, artist, title) ==
    LET unsaved == [library |-> lib_table, connections |-> conn_table]
        track_network == load_track_network_from_db(lib_table, conn_table)
    IN  IF track_network.raised # None
        THEN [raised |-> track_network.raised, tables |-> unsaved]
        ELSE LET added == add_track(track_network.library, Track(artist, title))
             IN  IF added.raised # None
                 THEN [raised |-> added.raised, tables |-> unsaved]
                 ELSE [raised |-> None,
                       tables |-> save_track_network_to_db(lib_table, conn_table,
                                      track_network.graph, added.track_map)]

\* cli.py:98-120  add_connection: load, look both tracks up, connect, save
cli_add_connection(lib_table, conn_table, source, target, bidirectional) ==
    LET unsaved == [library |-> lib_table, connections |-> conn_table]
        track_network == load_track_network_from_db(lib_table, conn_table)
    IN  IF track_network.raised # None
        THEN [raised |-> track_network.raised, tables |-> unsaved]
        ELSE LET source_track_id == get_track_id_from_artist_title(
                     track_network.library, source.artist, source.title)
                 target_track_id == get_track_id_from_artist_title(
                     track_network.library, target.artist, target.title)
             IN  IF source_track_id.raised # None
                 THEN [raised |-> source_track_id.raised, tables |-> unsaved]
                 ELSE IF target_track_id.raised # None
                 THEN [raised |-> target_track_id.raised, tables |-> unsaved]
                 ELSE LET connected == add_connection(track_network.graph,
                              source_track_id.returned, target_track_id.returned,
                              bidirectional)
                      IN  IF connected.raised # None
                          THEN [raised |-> connected.raised, tables |-> unsaved]
                          ELSE [raised |-> None,
                                tables |-> save_track_network_to_db(lib_table,
                                    conn_table, connected.graph, track_network.library)]

(***************************************************************************)
(* Texts.  A text (a line of a file, a file name, a field of a track read  *)
(* from a file, a string of a document) is the sequence of its characters. *)
(***************************************************************************)
\* str.startswith
StartsWith(text, prefix) ==
    Len(text) >= Len(prefix) /\ SubSeq(text, 1, Len(prefix)) = prefix

\* str.find, counted from 1: the first place where sep begins in text, 0 for none
Find(text, sep) ==
    LET hits == {i \in 1..(Len(text) - Len(sep) + 1) :
                    SubSeq(text, i, i + Len(sep) - 1) = sep}
    IN  IF hits = {} THEN 0 ELSE CHOOSE i \in hits : \A j \in hits : i <= j

\* str.split(sep, 1): the text itself when sep is not in it, else the text
\* before the first sep and the text after it
split_1(text, sep) ==
    LET at == Find(text, sep)
    IN  IF at = 0 THEN <<text>>
        ELSE <<SubSeq(text, 1, at - 1), SubSeq(text, at + Len(sep), Len(text))>>

\* the white space str.strip() takes off: the 29 characters for which
\* str.isspace() holds.  A character that has no escape in a TLA+ string is
\* written as its Python escape, "\\x0b" for the vertical tab.
Whitespace ==
    {"\t", "\n", "\\x0b", "\f", "\r", "\\x1c", "\\x1d", "\\x1e", "\\x1f",
     " ", "\\x85", "\\xa0", "\\u1680", "\\u2000", "\\u2001", "\\u2002",
     "\\u2003", "\\u2004", "\\u2005", "\\u2006", "\\u2007", "\\u2008",
     "\\u2009", "\\u200a", "\\u2028", "\\u2029", "\\u202f", "\\u205f",
     "\\u3000"}

RECURSIVE lstrip(_)
lstrip(text) ==
    IF text # <<>> /\ Head(text) \in Whitespace THEN lstrip(Tail(text)) ELSE text

RECURSIVE rstrip(_)
rstrip(text) ==
    IF text # <<>> /\ text[Len(text)] \in Whitespace
    THEN rstrip(SubSeq(text, 1, Len(text) - 1))
    ELSE text

\* str.strip()
strip(text) == rstrip(lstrip(text))

\* the decimal digits of Unicode (category Nd, Unicode 15.1), which are what
\* \d matches in a str pattern and what int() reads: one row per script,
\* the digits 0..9 of the script in order; the first row is ASCII
DecimalDigits ==
    <<<<"0", "1", "2", "3", "4", "5", "6", "7", "8", "9">>,
      <<"\\u0660", "\\u0661", "\\u0662", "\\u0663", "\\u0664", "\\u0665", "\\u0666", "\\u0667", "\\u0668", "\\u0669">>,
      <<"\\u06f0", "\\u06f1", "\\u06f2", "\\u06f3", "\\u06f4", "\\u06f5", "\\u06f6", "\\u06f7", "\\u06f8", "\\u06f9">>,
      <<"\\u07c0", "\\u07c1", "\\u07c2", "\\u07c3", "\\u07c4", "\\u07c5", "\\u07c6", "\\u07c7", "\\u07c8", "\\u07c9">>,
      <<"\\u0966", "\\u0967", "\\u0968", "\\u0969", "\\u096a", "\\u096b", "\\u096c", "\\u096d", "\\u096e", "\\u096f">>,
      <<"\\u09e6", "\\u09e7", "\\u09e8", "\\u09e9", "\\u09ea", "\\u09eb", "\\u09ec", "\\u09ed", "\\u09ee", "\\u09ef">>,
      <<"\\u0a66", "\\u0a67", "\\u0a68", "\\u0a69", "\\u0a6a", "\\u0a6b", "\\u0a6c", "\\u0a6d", "\\u0a6e", "\\u0a6f">>,
      <<"\\u0ae6", "\\u0ae7", "\\u0ae8", "\\u0ae9", "\\u0aea", "\\u0aeb", "\\u0aec", "\\u0aed", "\\u0aee", "\\u0aef">>,
      <<"\\u0b66", "\\u0b67", "\\u0b68", "\\u0b69", "\\u0b6a", "\\u0b6b", "\\u0b6c", "\\u0b6d", "\\u0b6e", "\\u0b6f">>,
      <<"\\u0be6", "\\u0be7", "\\u0be8", "\\u0be9", "\\u0bea", "\\u0beb", "\\u0bec", "\\u0bed", "\\u0bee", "\\u0bef">>,
      <<"\\u0c66", "\\u0c67", "\\u0c68", "\\u0c69", "\\u0c6a", "\\u0c6b", "\\u0c6c", "\\u0c6d", "\\u0c6e", "\\u0c6f">>,
      <<"\\u0ce6", "\\u0ce7", "\\u0ce8", "\\u0ce9", "\\u0cea", "\\u0ceb", "\\u0cec", "\\u0ced", "\\u0cee", "\\u0cef">>,
      <<"\\u0d66", "\\u0d67", "\\u0d68", "\\u0d69", "\\u0d6a", "\\u0d6b", "\\u0d6c", "\\u0d6d", "\\u0d6e", "\\u0d6f">>,
      <<"\\u0de6", "\\u0de7", "\\u0de8", "\\u0de9", "\\u0dea", "\\u0deb", "\\u0dec", "\\u0ded", "\\u0dee", "\\u0def">>,
      <<"\\u0e50", "\\u0e51", "\\u0e52", "\\u0e53", "\\u0e54", "\\u0e55", "\\u0e56", "\\u0e57", "\\u0e58", "\\u0e59">>,
      <<"\\u0ed0", "\\u0ed1", "\\u0ed2", "\\u0ed3", "\\u0ed4", "\\u0ed5", "\\u0ed6", "\\u0ed7", "\\u0ed8", "\\u0ed9">>,
      <<"\\u0f20", "\\u0f21", "\\u0f22", "\\u0f23", "\\u0f24", "\\u0f25", "\\u0f26", "\\u0f27", "\\u0f28", "\\u0f29">>,
      <<"\\u1040", "\\u1041", "\\u1042", "\\u1043", "\\u1044", "\\u1045", "\\u1046", "\\u1047", "\\u1048", "\\u1049">>,
      <<"\\u1090", "\\u1091", "\\u1092", "\\u1093", "\\u1094", "\\u1095", "\\u1096", "\\u1097", "\\u1098", "\\u1099">>,
      <<"\\u17e0", "\\u17e1", "\\u17e2", "\\u17e3", "\\u17e4", "\\u17e5", "\\u17e6", "\\u17e7", "\\u17e8", "\\u17e9">>,
      <<"\\u1810", "\\u1811", "\\u1812", "\\u1813", "\\u1814", "\\u1815", "\\u1816", "\\u1817", "\\u1818", "\\u1819">>,
      <<"\\u1946", "\\u1947", "\\u1948", "\\u1949", "\\u194a", "\\u194b", "\\u194c", "\\u194d", "\\u194e", "\\u194f">>,
      <<"\\u19d0", "\\u19d1", "\\u19d2", "\\u19d3", "\\u19d4", "\\u19d5", "\\u19d6", "\\u19d7", "\\u19d8", "\\u19d9">>,
      <<"\\u1a80", "\\u1a81", "\\u1a82", "\\u1a83", "\\u1a84", "\\u1a85", "\\u1a86", "\\u1a87", "\\u1a88", "\\u1a89">>,
      <<"\\u1a90", "\\u1a91", "\\u1a92", "\\u1a93", "\\u1a94", "\\u1a95", "\\u1a96", "\\u1a97", "\\u1a98", "\\u1a99">>,
      <<"\\u1b50", "\\u1b51", "\\u1b52", "\\u1b53", "\\u1b54", "\\u1b55", "\\u1b56", "\\u1b57", "\\u1b58", "\\u1b59">>,
      <<"\\u1bb0", "\\u1bb1", "\\u1bb2", "\\u1bb3", "\\u1bb4", "\\u1bb5", "\\u1bb6", "\\u1bb7", "\\u1bb8", "\\u1bb9">>,
      <<"\\u1c40", "\\u1c41", "\\u1c42", "\\u1c43", "\\u1c44", "\\u1c45", "\\u1c46", "\\u1c47", "\\u1c48", "\\u1c49">>,
      <<"\\u1c50", "\\u1c51", "\\u1c52", "\\u1c53", "\\u1c54", "\\u1c55", "\\u1c56", "\\u1c57", "\\u1c58", "\\u1c59">>,
      <<"\\ua620", "\\ua621", "\\ua622", "\\ua623", "\\ua624", "\\ua625", "\\ua626", "\\ua627", "\\ua628", "\\ua629">>,
      <<"\\ua8d0", "\\ua8d1", "\\ua8d2", "\\ua8d3", "\\ua8d4", "\\ua8d5", "\\ua8d6", "\\ua8d7", "\\ua8d8", "\\ua8d9">>,
      <<"\\ua900", "\\ua901", "\\ua902", "\\ua903", "\\ua904", "\\ua905", "\\ua906", "\\ua907", "\\ua908", "\\ua909">>,
      <<"\\ua9d0", "\\ua9d1", "\\ua9d2", "\\ua9d3", "\\ua9d4", "\\ua9d5", "\\ua9d6", "\\ua9d7", "\\ua9d8", "\\ua9d9">>,
      <<"\\ua9f0", "\\ua9f1", "\\ua9f2", "\\ua9f3", "\\ua9f4", "\\ua9f5", "\\ua9f6", "\\ua9f7", "\\ua9f8", "\\ua9f9">>,
      <<"\\uaa50", "\\uaa51", "\\uaa52", "\\uaa53", "\\uaa54", "\\uaa55", "\\uaa56", "\\uaa57", "\\uaa58", "\\uaa59">>,
      <<"\\uabf0", "\\uabf1", "\\uabf2", "\\uabf3", "\\uabf4", "\\uabf5", "\\uabf6", "\\uabf7", "\\uabf8", "\\uabf9">>,
      <<"\\uff10", "\\uff11", "\\uff12", "\\uff13", "\\uff14", "\\uff15", "\\uff16", "\\uff17", "\\uff18", "\\uff19">>,
      <<"\\U000104a0", "\\U000104a1", "\\U000104a2", "\\U000104a3", "\\U000104a4", "\\U000104a5", "\\U000104a6", "\\U000104a7", "\\U000104a8", "\\U000104a9">>,
      <<"\\U00010d30", "\\U00010d31", "\\U00010d32", "\\U00010d33", "\\U00010d34", "\\U00010d35", "\\U00010d36", "\\U00010d37", "\\U00010d38", "\\U00010d39">>,
      <<"\\U00011066", "\\U00011067", "\\U00011068", "\\U00011069", "\\U0001106a", "\\U0001106b", "\\U0001106c", "\\U0001106d", "\\U0001106e", "\\U0001106f">>,
      <<"\\U000110f0", "\\U000110f1", "\\U000110f2", "\\U000110f3", "\\U000110f4", "\\U000110f5", "\\U000110f6", "\\U000110f7", "\\U000110f8", "\\U000110f9">>,
      <<"\\U00011136", "\\U00011137", "\\U00011138", "\\U00011139", "\\U0001113a", "\\U0001113b", "\\U0001113c", "\\U0001113d", "\\U0001113e", "\\U0001113f">>,
      <<"\\U000111d0", "\\U000111d1", "\\U000111d2", "\\U000111d3", "\\U000111d4", "\\U000111d5", "\\U000111d6", "\\U000111d7", "\\U000111d8", "\\U000111d9">>,
      <<"\\U000112f0", "\\U000112f1", "\\U000112f2", "\\U000112f3", "\\U000112f4", "\\U000112f5", "\\U000112f6", "\\U000112f7", "\\U000112f8", "\\U000112f9">>,
      <<"\\U00011450", "\\U00011451", "\\U00011452", "\\U00011453", "\\U00011454", "\\U00011455", "\\U00011456", "\\U00011457", "\\U00011458", "\\U00011459">>,
      <<"\\U000114d0", "\\U000114d1", "\\U000114d2", "\\U000114d3", "\\U000114d4", "\\U000114d5", "\\U000114d6", "\\U000114d7", "\\U000114d8", "\\U000114d9">>,
      <<"\\U00011650", "\\U00011651", "\\U00011652", "\\U00011653", "\\U00011654", "\\U00011655", "\\U00011656", "\\U00011657", "\\U00011658", "\\U00011659">>,
      <<"\\U000116c0", "\\U000116c1", "\\U000116c2", "\\U000116c3", "\\U000116c4", "\\U000116c5", "\\U000116c6", "\\U000116c7", "\\U000116c8", "\\U000116c9">>,
      <<"\\U00011730", "\\U00011731", "\\U00011732", "\\U00011733", "\\U00011734", "\\U00011735", "\\U00011736", "\\U00011737", "\\U00011738", "\\U00011739">>,
      <<"\\U000118e0", "\\U000118e1", "\\U000118e2", "\\U000118e3", "\\U000118e4", "\\U000118e5", "\\U000118e6", "\\U000118e7", "\\U000118e8", "\\U000118e9">>,
      <<"\\U00011950", "\\U00011951", "\\U00011952", "\\U00011953", "\\U00011954", "\\U00011955", "\\U00011956", "\\U00011957", "\\U00011958", "\\U00011959">>,
      <<"\\U00011c50", "\\U00011c51", "\\U00011c52", "\\U00011c53", "\\U00011c54", "\\U00011c55", "\\U00011c56", "\\U00011c57", "\\U00011c58", "\\U00011c59">>,
      <<"\\U00011d50", "\\U00011d51", "\\U00011d52", "\\U00011d53", "\\U00011d54", "\\U00011d55", "\\U00011d56", "\\U00011d57", "\\U00011d58", "\\U00011d59">>,
      <<"\\U00011da0", "\\U00011da1", "\\U00011da2", "\\U00011da3", "\\U00011da4", "\\U00011da5", "\\U00011da6", "\\U00011da7", "\\U00011da8", "\\U00011da9">>,
      <<"\\U00011f50", "\\U00011f51", "\\U00011f52", "\\U00011f53", "\\U00011f54", "\\U00011f55", "\\U00011f56", "\\U00011f57", "\\U00011f58", "\\U00011f59">>,
      <<"\\U00016a60", "\\U00016a61", "\\U00016a62", "\\U00016a63", "\\U00016a64", "\\U00016a65", "\\U00016a66", "\\U00016a67", "\\U00016a68", "\\U00016a69">>,
      <<"\\U00016ac0", "\\U00016ac1", "\\U00016ac2", "\\U00016ac3", "\\U00016ac4", "\\U00016ac5", "\\U00016ac6", "\\U00016ac7", "\\U00016ac8", "\\U00016ac9">>,
      <<"\\U00016b50", "\\U00016b51", "\\U00016b52", "\\U00016b53", "\\U00016b54", "\\U00016b55", "\\U00016b56", "\\U00016b57", "\\U00016b58", "\\U00016b59">>,
      <<"\\U0001d7ce", "\\U0001d7cf", "\\U0001d7d0", "\\U0001d7d1", "\\U0001d7d2", "\\U0001d7d3", "\\U0001d7d4", "\\U0001d7d5", "\\U0001d7d6", "\\U0001d7d7">>,
      <<"\\U0001d7d8", "\\U0001d7d9", "\\U0001d7da", "\\U0001d7db", "\\U0001d7dc", "\\U0001d7dd", "\\U0001d7de", "\\U0001d7df", "\\U0001d7e0", "\\U0001d7e1">>,
      <<"\\U0001d7e2", "\\U0001d7e3", "\\U0001d7e4", "\\U0001d7e5", "\\U0001d7e6", "\\U0001d7e7", "\\U0001d7e8", "\\U0001d7e9", "\\U0001d7ea", "\\U0001d7eb">>,
      <<"\\U0001d7ec", "\\U0001d7ed", "\\U0001d7ee", "\\U0001d7ef", "\\U0001d7f0", "\\U0001d7f1", "\\U0001d7f2", "\\U0001d7f3", "\\U0001d7f4", "\\U0001d7f5">>,
      <<"\\U0001d7f6", "\\U0001d7f7", "\\U0001d7f8", "\\U0001d7f9", "\\U0001d7fa", "\\U0001d7fb", "\\U0001d7fc", "\\U0001d7fd", "\\U0001d7fe", "\\U0001d7ff">>,
      <<"\\U0001e140", "\\U0001e141", "\\U0001e142", "\\U0001e143", "\\U0001e144", "\\U0001e145", "\\U0001e146", "\\U0001e147", "\\U0001e148", "\\U0001e149">>,
      <<"\\U0001e2f0", "\\U0001e2f1", "\\U0001e2f2", "\\U0001e2f3", "\\U0001e2f4", "\\U0001e2f5", "\\U0001e2f6", "\\U0001e2f7", "\\U0001e2f8", "\\U0001e2f9">>,
      <<"\\U0001e4f0", "\\U0001e4f1", "\\U0001e4f2", "\\U0001e4f3", "\\U0001e4f4", "\\U0001e4f5", "\\U0001e4f6", "\\U0001e4f7", "\\U0001e4f8", "\\U0001e4f9">>,
      <<"\\U0001e950", "\\U0001e951", "\\U0001e952", "\\U0001e953", "\\U0001e954", "\\U0001e955", "\\U0001e956", "\\U0001e957", "\\U0001e958", "\\U0001e959">>,
      <<"\\U0001fbf0", "\\U0001fbf1", "\\U0001fbf2", "\\U0001fbf3", "\\U0001fbf4", "\\U0001fbf5", "\\U0001fbf6", "\\U0001fbf7", "\\U0001fbf8", "\\U0001fbf9">>>>

DigitChars == UNION {{DecimalDigits[r][i] : i \in 1..10} : r \in 1..Len(DecimalDigits)}

\* \d
IsDigit(c) == c \in DigitChars

\* the value int() gives the digit
DigitValue(c) ==
    (CHOOSE i \in 1..10 : \E r \in 1..Len(DecimalDigits) : DecimalDigits[r][i] = c) - 1

\* [low-high] in a pattern: an ASCII digit of that range
IsAsciiDigit(c, low, high) == \E v \in low..high : c = DecimalDigits[1][v + 1]

\* sys.get_int_max_str_digits(): the most digits int() reads (rekordbox.py:41)
IntMaxStrDigits == 4300

RECURSIVE DigitsValue(_)
\* the number a text of digits is the numeral of
DigitsValue(text) ==
    IF text = <<>> THEN 0
    ELSE DigitsValue(SubSeq(text, 1, Len(text) - 1)) * 10 + DigitValue(text[Len(text)])

\* int(text) on a text of digits: the number, or ValueError for a text of
\* more than IntMaxStrDigits digits
int(text) ==
    IF Len(text) > IntMaxStrDigits THEN [raised |-> "ValueError", value |-> 0]
    ELSE [raised |-> None, value |-> DigitsValue(text)]

(***************************************************************************)
(* The export: d3_network_data.py.  The values of a document are ints and  *)
(* strs.  A str is kept as what it is the text of: str(track), the name    *)
(* "<artist> - <title>" of a track, or str(n), the decimal numeral of an   *)
(* int n.                                                                  *)
(***************************************************************************)
\* the int n
IntValue(n) == [kind |-> "int", int |-> n]

\* str(n), the numeral of the int n: "1" of 1, "-12" of -12
StrOfInt(n) == [kind |-> "str", int |-> n]

\* library.py:23-24  f"{self.artist} - {self.title}"
Track_str(track) == [kind |-> "str", track |-> track]

\* the longest str pydantic reads as an int, in characters
\* (d3_network_data.py:38)
IntParsingSize == 4300

RECURSIVE StrLen(_)
\* len(str(n)): the digits of n, and the sign of a negative n
StrLen(n) ==
    IF n < 0 THEN 1 + StrLen(-n)
    ELSE IF n < 10 THEN 1
    ELSE 1 + StrLen(n \div 10)

\* d3_network_data.py:38, 42-43  the values an int field takes: an int, and
\* the numeral of an int when it has at most IntParsingSize characters, which
\* pydantic reads as that int; the name of a track, with its " - ", reads as
\* no int
IsIntField(value) ==
    \/ value.kind = "int"
    \/ /\ value.kind = "str"
       /\ "int" \in DOMAIN value
       /\ StrLen(value.int) <= IntParsingSize

\* d3_network_data.py:39  the values a str field takes: a str, never an int
IsStrField(value) == value.kind = "str"

\* d3_network_data.py:37-50  NetworkDictSchema(**network_dict): every node
\* needs an id that an int field takes and a str name, every link a source
\* and a target that an int field takes; nothing relates the links to the
\* nodes
NetworkDictSchema(network_dict) ==
    IF /\ \A i \in 1..Len(network_dict.nodes) :
              /\ IsIntField(network_dict.nodes[i].id)
              /\ IsStrField(network_dict.nodes[i].name)
       /\ \A i \in 1..Len(network_dict.links) :
              /\ IsIntField(network_dict.links[i].source)
              /\ IsIntField(network_dict.links[i].target)
    THEN None
    ELSE "ValidationError"

\* d3_network_data.py:22-52
D3NetworkData(network_dict) ==
    [raised |-> NetworkDictSchema(network_dict), network_dict |-> network_dict]

RECURSIVE D3Nodes(_, _)
\* d3_network_data.py:59-62  library[track_id] raises KeyError for an id the
\* library lacks
D3Nodes(ids, d) ==
    IF ids = <<>> THEN [raised |-> None, nodes |-> <<>>]
    ELSE LET track == getitem(d, Head(ids))
             rest == D3Nodes(Tail(ids), d)
         IN  IF track.raised # None THEN [raised |-> track.raised, nodes |-> <<>>]
             ELSE IF rest.raised # None THEN rest
             ELSE [raised |-> None,
                   nodes |-> <<[id |-> IntValue(Head(ids)),
                                name |-> Track_str(track.returned)]>>
                             \o rest.nodes]

RECURSIVE D3Links(_)
\* d3_network_data.py:63-66
D3Links(conns) ==
    IF conns = <<>> THEN <<>>
    ELSE <<[source |-> IntValue(Head(conns)[1]), target |-> IntValue(Head(conns)[2])]>>
         \o D3Links(Tail(conns))

\* d3_network_data.py:54-68
from_track_network(G, d) ==
    LET nodes == D3Nodes(track_ids(G), d)
    IN  IF nodes.raised # None
        THEN [raised |-> nodes.raised, network_dict |-> [nodes |-> <<>>, links |-> <<>>]]
        ELSE D3NetworkData([nodes |-> nodes.nodes,
                            links |-> D3Links(TrackNetwork_connections(G))])

(***************************************************************************)
(* History playlists: rekordbox.py and Library.from_m3u_file.              *)
(***************************************************************************)
\* library.py:66  l.startswith("#EXTINF")
IsExtInf(line) == StartsWith(line, <<"#", "E", "X", "T", "I", "N", "F">>)

\* library.py:66  [l.strip() for l in lines if l.startswith("#EXTINF")]
ExtInfLines(lines) ==
    LET kept == SelectSeq(lines, IsExtInf)
    IN  [i \in 1..Len(kept) |-> strip(kept[i])]

\* library.py:68-70  the text after the first "," is split at its first
\* " - "; the part before it becomes the track's first field, the part after
\* it the second.  A line without "," gives IndexError, a text without
\* " - " gives ValueError.
ParseExtInf(line) ==
    LET at_comma == split_1(line, <<",">>)
        title_artist == at_comma[2]
        at_dash == split_1(title_artist, <<" ", "-", " ">>)
    IN  IF Len(at_comma) < 2 THEN [raised |-> "IndexError", track |-> Track("", "")]
        ELSE IF Len(at_dash) # 2
        THEN [raised |-> "ValueError", track |-> Track("", "")]
        ELSE [raised |-> None, track |-> Track(at_dash[1], at_dash[2])]

RECURSIVE ReadTrackList(_)
\* library.py:67-70  the loop over the #EXTINF lines: the first line that
\* does not parse ends it
ReadTrackList(extinf_lines) ==
    IF extinf_lines = <<>> THEN [raised |-> None, track_list |-> <<>>]
    ELSE LET parsed == ParseExtInf(Head(extinf_lines))
             rest == ReadTrackList(Tail(extinf_lines))
         IN  IF parsed.raised # None
             THEN [raised |-> parsed.raised, track_list |-> <<>>]
             ELSE IF rest.raised # None THEN rest
             ELSE [raised |-> None, track_list |-> <<parsed.track>> \o rest.track_list]

\* library.py:58-72
Library_from_m3u_file(lines) ==
    LET read == ReadTrackList(ExtInfLines(lines))
    IN  IF read.raised # None
        THEN [raised |-> read.raised, track_map |-> <<>>]
        ELSE from_track_list(read.track_list)

\* how many digits the text has in a row from place p on
DigitRun(text, p) ==
    Cardinality({k \in p..Len(text) : \A j \in p..k : IsDigit(text[j])})

\* rekordbox.py:19  ^HISTORY (\d{4}-\d{2}-\d{2}) ?(\((\d+)\))?\.m3u8$ matched
\* at the start of the name: "HISTORY ", the date, a space or none, a number in
\* brackets or none, ".m3u8", and then the end of the name or a line end
\* that ends the name.  group3 is <<>> when the name has no number.
filename_pattern_match(file_name) ==
    LET n == Len(file_name)
        date_ok ==
            /\ n >= 18
            /\ SubSeq(file_name, 1, 8) = <<"H", "I", "S", "T", "O", "R", "Y", " ">>
            /\ \A k \in {9, 10, 11, 12, 14, 15, 17, 18} : IsDigit(file_name[k])
            /\ file_name[13] = "-"
            /\ file_name[16] = "-"
        p1 == IF n >= 19 /\ file_name[19] = " " THEN 20 ELSE 19
        bracket == n >= p1 /\ file_name[p1] = "("
        run == DigitRun(file_name, p1 + 1)
        bracket_ok == run >= 1 /\ n >= p1 + run + 1 /\ file_name[p1 + run + 1] = ")"
        p2 == IF bracket THEN p1 + run + 2 ELSE p1
        rest == IF p2 <= n THEN SubSeq(file_name, p2, n) ELSE <<>>
    IN  [matched |-> /\ date_ok
                     /\ bracket => bracket_ok
                     /\ rest \in {<<".", "m", "3", "u", "8">>, <<".", "m", "3", "u", "8", "\n">>},
         group1 |-> IF date_ok THEN SubSeq(file_name, 9, 18) ELSE <<>>,
         group3 |-> IF date_ok /\ bracket /\ bracket_ok
                    THEN SubSeq(file_name, p1 + 1, p1 + run)
                    ELSE <<>>]

\* the days of the month, as the calendar of datetime has them
DaysInMonth(year, month) ==
    IF month = 2
    THEN IF year % 4 = 0 /\ (year % 100 # 0 \/ year % 400 = 0) THEN 29 ELSE 28
    ELSE IF month \in {4, 6, 9, 11} THEN 30 ELSE 31

\* rekordbox.py:40  datetime.strptime(date_str, "%Y-%m-%d").date() on a text
\* dddd-dd-dd of digits: %Y takes any four digits, %m takes 1[0-2] or 0[1-9]
\* and %d takes 3[0-1], [1-2]\d or 0[1-9], so the month and the first digit
\* of the day must be ASCII; ValueError when the text is off the format or
\* names no day of the calendar.  The date is <<year, month, day>>.
strptime(date_str) ==
    LET year == int(SubSeq(date_str, 1, 4)).value
        month == int(SubSeq(date_str, 6, 7)).value
        day == int(SubSeq(date_str, 9, 10)).value
        month_ok == \/ date_str[6] = "1" /\ IsAsciiDigit(date_str[7], 0, 2)
                    \/ date_str[6] = "0" /\ IsAsciiDigit(date_str[7], 1, 9)
        day_ok == \/ date_str[9] = "3" /\ IsAsciiDigit(date_str[10], 0, 1)
                  \/ IsAsciiDigit(date_str[9], 1, 2) /\ IsDigit(date_str[10])
                  \/ date_str[9] = "0" /\ IsAsciiDigit(date_str[10], 1, 9)
    IN  IF /\ month_ok
           /\ day_ok
           /\ year >= 1
           /\ day <= DaysInMonth(year, month)
        THEN [raised |-> None, date |-> <<year, month, day>>]
        ELSE [raised |-> "ValueError", date |-> <<>>]

\* rekordbox.py:21-41  RekordboxHistoryM3UFile(file_path) by the name of the
\* file; without a number the file number is 0; a name off the pattern, a
\* date that is no day and a number int() does not read raise ValueError
RekordboxHistoryM3UFile(file_name) ==
    LET match == filename_pattern_match(file_name)
        parsed == strptime(match.group1)
        number == IF match.group3 = <<>> THEN [raised |-> None, value |-> 0]
                  ELSE int(match.group3)
        no_file == [raised |-> "ValueError", name |-> file_name, date |-> <<>>,
                    date_file_number |-> 0]
    IN  IF ~match.matched THEN no_file
        ELSE IF parsed.raised # None THEN no_file
        ELSE IF number.raised # None THEN no_file
        ELSE [raised |-> None, name |-> file_name, date |-> parsed.date,
              date_file_number |-> number.value]

\* rekordbox.py:76-93  the tracks are read before the file name is looked at
RekordboxHistoryPlaylist_from_m3u_file(file_name, lines) ==
    LET library == Library_from_m3u_file(lines)
        file == RekordboxHistoryM3UFile(file_name)
    IN  IF library.raised # None
        THEN [raised |-> library.raised, track_map |-> <<>>]
        ELSE IF file.raised # None
        THEN [raised |-> file.raised, track_map |-> <<>>]
        ELSE [raised |-> None, track_map |-> library.track_map]

\* library.py:86-87  list(self.track_map.values())
tracks(d) == [i \in 1..Len(d) |-> d[i].track]

\* rekordbox.py:95-101
transitions(d) ==
    [i \in 1..(IF Len(d) = 0 THEN 0 ELSE Len(d) - 1) |->
        <<tracks(d)[i], tracks(d)[i + 1]>>]

RECURSIVE HistoryFiles(_)
\* rekordbox.py:132-134  one RekordboxHistoryM3UFile per *.m3u8 entry of the
\* directory, in the order glob yields them; a name off the pattern raises
HistoryFiles(entries) ==
    IF entries = <<>> THEN [raised |-> None, files |-> <<>>]
    ELSE LET file == RekordboxHistoryM3UFile(Head(entries).name)
             rest == HistoryFiles(Tail(entries))
         IN  IF file.raised # None THEN [raised |-> file.raised, files |-> <<>>]
             ELSE IF rest.raised # None THEN rest
             ELSE [raised |-> None,
                   files |-> <<[name |-> file.name, date |-> file.date,
                                date_file_number |-> file.date_file_number,
                                lines |-> Head(entries).lines]>> \o rest.files]

\* datetime.date.__lt__: dates compare as (year, month, day)
DateLess(d, e) ==
    \/ d[1] < e[1]
    \/ d[1] = e[1] /\ d[2] < e[2]
    \/ d[1] = e[1] /\ d[2] = e[2] /\ d[3] < e[3]

\* rekordbox.py:136-139  `min_date` is <<>> for None and <<date>> for a date
SinceMinDate(files, min_date) ==
    IF min_date = <<>> THEN files
    ELSE SelectSeq(files, LAMBDA f : ~DateLess(f.date, min_date[1]))

\* the key of rekordbox.py:147, compared as Python compares tuples
KeyLess(f, g) ==
    \/ DateLess(f.date, g.date)
    \/ f.date = g.date /\ f.date_file_number < g.date_file_number

RECURSIVE SortFiles(_)
\* rekordbox.py:147  list.sort is stable: files with one key keep their order
SortFiles(files) ==
    IF files = <<>> THEN <<>>
    ELSE LET last == files[Len(files)]
             sorted == SortFiles(SubSeq(files, 1, Len(files) - 1))
         IN  SelectSeq(sorted, LAMBDA f : ~KeyLess(last, f))
             \o <<last>>
             \o SelectSeq(sorted, LAMBDA f : KeyLess(last, f))

RECURSIVE LoadPlaylists(_)
\* rekordbox.py:149-151
LoadPlaylists(files) ==
    IF files = <<>> THEN [raised |-> None, playlists |-> <<>>]
    ELSE LET playlist == RekordboxHistoryPlaylist_from_m3u_file(Head(files).name,
                                                                Head(files).lines)
             rest == LoadPlaylists(Tail(files))
         IN  IF playlist.raised # None
             THEN [raised |-> playlist.raised, playlists |-> <<>>]
             ELSE IF rest.raised # None THEN rest
             ELSE [raised |-> None,
                   playlists |-> <<[name |-> Head(files).name,
                                    date |-> Head(files).date,
                                    date_file_number |-> Head(files).date_file_number,
                                    track_map |-> playlist.track_map]>>
                                 \o rest.playlists]

\* rekordbox.py:112-151
load_rekordbox_histories_since(entries, min_date) ==
    LET found == HistoryFiles(entries)
        rekordbox_history_files == SinceMinDate(found.files, min_date)
    IN  IF found.raised # None THEN [raised |-> found.raised, playlists |-> <<>>]
        ELSE IF Len(rekordbox_history_files) = 0
        THEN [raised |-> "ValueError", playlists |-> <<>>]
        ELSE LoadPlaylists(SortFiles(rekordbox_history_files))

(***************************************************************************)
(* The history survey of cli.py.  The user's answers are the sequence of   *)
(* the replies to the prompts, in the order the prompts are made.          *)
(***************************************************************************)
RECURSIVE ExtendAll(_, _)
\* library.py:161-162  for other in libraries: library = library.extend(other)
ExtendAll(library, libraries) ==
    IF libraries = <<>> THEN library
    ELSE ExtendAll(extend(library, Head(libraries)), Tail(libraries))

\* library.py:157-165  the last library, extended by the others in order; an
\* empty list makes pop raise IndexError
merge_libraries(libraries) ==
    IF libraries = <<>> THEN [raised |-> "IndexError", returned |-> Library(<<>>)]
    ELSE [raised |-> None,
          returned |-> ExtendAll(libraries[Len(libraries)],
                                 SubSeq(libraries, 1, Len(libraries) - 1))]

RECURSIVE AllTransitions(_)
\* cli.py:263-269  the transitions of the playlists, in the order they are asked
AllTransitions(playlists) ==
    IF playlists = <<>> THEN <<>>
    ELSE transitions(Head(playlists)) \o AllTransitions(Tail(playlists))

\* the reply the user gives at prompt k: when the replies are used up the
\* input has ended
ReplyAt(replies, k) == IF k <= Len(replies) THEN replies[k] ELSE "EOF"

\* cli.py:269-279  one transition of the survey: the prompt, and for a
\* confirmed transition the lookup of both tracks in the network's library
\* and add_connection; an exception leaves the graph as it is
confirm_transition(G, d, transition, reply) ==
    LET confirmed == Confirm_ask(reply)
        source_track_id == get_track_id_from_track(d, transition[1])
        target_track_id == get_track_id_from_track(d, transition[2])
    IN  IF confirmed.raised # None THEN [raised |-> confirmed.raised, graph |-> G]
        ELSE IF ~confirmed.returned THEN [raised |-> None, graph |-> G]
        ELSE IF source_track_id.raised # None
        THEN [raised |-> source_track_id.raised, graph |-> G]
        ELSE IF target_track_id.raised # None
        THEN [raised |-> target_track_id.raised, graph |-> G]
        ELSE add_connection(G, source_track_id.returned, target_track_id.returned, FALSE)

\* cli.py:281-282  the prompt after the survey, and the save when the user
\* asks for it
confirm_save(G, d, reply, lib_table, conn_table) ==
    LET confirmed == Confirm_ask(reply)
    IN  [raised |-> confirmed.raised,
         tables |-> IF confirmed.raised = None /\ confirmed.returned
                    THEN save_track_network_to_db(lib_table, conn_table, G, d)
                    ELSE [library |-> lib_table, connections |-> conn_table]]

RECURSIVE AskTransitions(_, _, _, _, _)
\* cli.py:263-279  the survey from prompt k on; an exception ends it, with
\* the edges of the transitions confirmed before in the graph
AskTransitions(G, d, asked, replies, k) ==
    IF k > Len(asked) THEN [raised |-> None, graph |-> G]
    ELSE LET step == confirm_transition(G, d, asked[k], ReplyAt(replies, k))
         IN  IF step.raised # None THEN step
             ELSE AskTransitions(step.graph, d, asked, replies, k + 1)

\* cli.py:257-282  _add_connections_from_playlists(track_network, playlists,
\* db_name) with the user's replies to its prompts: the survey, then the
\* prompt for the save; an exception of the survey ends the function before
\* that prompt
add_connections_from_playlists(G, d, playlists, replies, lib_table, conn_table) ==
    LET asked == AllTransitions(playlists)
        surveyed == AskTransitions(G, d, asked, replies, 1)
        saved == confirm_save(surveyed.graph, d, ReplyAt(replies, Len(asked) + 1),
                              lib_table, conn_table)
    IN  IF surveyed.raised # None
        THEN [raised |-> surveyed.raised, graph |-> surveyed.graph,
              tables |-> [library |-> lib_table, connections |-> conn_table]]
        ELSE [raised |-> saved.raised, graph |-> surveyed.graph, tables |-> saved.tables]

RECURSIVE TrackMapsOf(_)
\* the playlists as the libraries they are
TrackMapsOf(playlists) ==
    IF playlists = <<>> THEN <<>>
    ELSE <<Head(playlists).track_map>> \o TrackMapsOf(Tail(playlists))

\* a command ended by the exception: the tables keep their rows
Aborted(raised, lib_table, conn_table) ==
    [raised |-> raised, tables |-> [library |-> lib_table, connections |-> conn_table]]

\* cli.py:212-216  the network is built from the merged library, then the survey
LoadFromMergedLibrary(track_network, playlists, lib_table, conn_table, replies) ==
    IF track_network.raised # None
    THEN Aborted(track_network.raised, lib_table, conn_table)
    ELSE add_connections_from_playlists(track_network.graph, track_network.library,
             playlists, replies, lib_table, conn_table)

\* cli.py:211-212  library = merge_libraries(playlists);
\* TrackNetwork.from_library(library)
LoadFromPlaylists(playlists, library, lib_table, conn_table, replies) ==
    IF library.raised # None THEN Aborted(library.raised, lib_table, conn_table)
    ELSE LoadFromMergedLibrary(from_library(library.returned), playlists,
                               lib_table, conn_table, replies)

\* cli.py:207-211  the playlists that load_rekordbox_histories_since gave
LoadFromHistories(loaded, lib_table, conn_table, replies) ==
    IF loaded.raised # None THEN Aborted(loaded.raised, lib_table, conn_table)
    ELSE LoadFromPlaylists(TrackMapsOf(loaded.playlists),
                           merge_libraries(TrackMapsOf(loaded.playlists)),
                           lib_table, conn_table, replies)

\* cli.py:197-216  load_track_network_from_rekordbox_histories: the playlists
\* are loaded and merged, the network is built from the merged library, then
\* the survey; an exception ends the command
load_track_network_from_rekordbox_histories(lib_table, conn_table, entries, min_date, replies) ==
    Standalone(LoadFromHistories(load_rekordbox_histories_since(entries, min_date),
                                 lib_table, conn_table, replies))

\* cli.py:247-254  the network's library is replaced by its extension with
\* the merged library (the graph is not touched), then the survey
UpdateFromMergedLibrary(track_network, playlists, library_playlists, lib_table, conn_table, replies) ==
    IF library_playlists.raised # None
    THEN Aborted(library_playlists.raised, lib_table, conn_table)
    ELSE add_connections_from_playlists(track_network.graph,
             extend(track_network.library, library_playlists.returned),
             playlists, replies, lib_table, conn_table)

\* cli.py:243-247  the playlists that load_rekordbox_histories_since gave,
\* and library_playlists = merge_libraries(playlists)
UpdateFromHistories(track_network, loaded, lib_table, conn_table, replies) ==
    IF loaded.raised # None THEN Aborted(loaded.raised, lib_table, conn_table)
    ELSE UpdateFromMergedLibrary(track_network, TrackMapsOf(loaded.playlists),
                                 merge_libraries(TrackMapsOf(loaded.playlists)),
                                 lib_table, conn_table, replies)

\* cli.py:241-245  the network that load_track_network_from_db gave, and the
\* load of the playlists
UpdateLoadedNetwork(track_network, lib_table, conn_table, entries, min_date, replies) ==
    IF track_network.raised # None
    THEN Aborted(track_network.raised, lib_table, conn_table)
    ELSE UpdateFromHistories(track_network,
                             load_rekordbox_histories_since(entries, min_date),
                             lib_table, conn_table, replies)

\* cli.py:233-254  update_track_network_from_rekordbox_histories: the network
\* is loaded from the store, the playlists are loaded and merged, the
\* network's library is replaced, then the survey; an exception ends the
\* command
update_track_network_from_rekordbox_histories(lib_table, conn_table, entries, min_date, replies) ==
    Standalone(UpdateLoadedNetwork(load_track_network_from_db(lib_table, conn_table),
                                   lib_table, conn_table, entries, min_date, replies))

(***************************************************************************)
(* Inputs of the calls.                                                    *)
(***************************************************************************)
\* the rows example.py stores: one track per id, in id order
SampleTracks == <<Track("A", "X"), Track("B", "Y"), Track("A", "Y"), Track("B", "X")>>

SampleTrack(id) == SampleTracks[((id - 1) % Len(SampleTracks)) + 1]

RECURSIVE SampleLibrary(_)
SampleLibrary(S) ==
    IF S = {} THEN <<>>
    ELSE LET k == CHOOSE x \in S : \A y \in S : y <= x
         IN  Append(SampleLibrary(S \ {k}), Entry(k, SampleTrack(k)))

Pairs == Ids \X Ids

RECURSIVE SeqsUpTo(_, _)
\* the sequences over S of length at most n
SeqsUpTo(S, n) ==
    IF n = 0 THEN {<<>>}
    ELSE LET shorter == SeqsUpTo(S, n - 1)
         IN  shorter \cup {Append(q, x) : q \in shorter, x \in S}

ConnectionLists == SeqsUpTo(Pairs, MaxConnections)

\* the graphs handed to TrackNetwork(graph, library): the library's ids added
\* as nodes in the library's order, then at most MaxEdges edges between them
GraphsOver(d) ==
    {AddEdges(AddNodes(DiGraph, KeyList(d)), es) :
        es \in SeqsUpTo(Keys(d) \X Keys(d), MaxEdges)}

TrackLists == SeqsUpTo(Tracks, MaxTrackList)

OtherLibraries == {d \in TrackMaps : Len(d) <= MaxOther}

\* the sample track of each of some ids, stored under it, in every insertion order
SampleLibraries ==
    {d \in TrackMaps : \A i \in 1..Len(d) : d[i].track = SampleTrack(d[i].id)}

(***************************************************************************)
(* The calls on a TrackNetwork.                                            *)
(***************************************************************************)
\* TrackNetwork.__init__ (track_network.py:35-37) over a graph whose nodes are
\* the library's ids and that has no edge yet
InitNetwork ==
    /\ track_map \in {Library(d) : d \in SampleLibraries}
    /\ graph = AddNodes(DiGraph, KeyList(track_map))
    /\ result = [op |-> "TrackNetwork", raised |-> None]
    /\ library_table = <<>>
    /\ connections_table = <<>>

\* TrackNetwork.add_connection; the networks followed hold at most MaxEdges + 1
\* connections after the call
AddConnection ==
    \E source_track_id \in Ids, target_track_id \in Ids, bidirectional \in BOOLEAN :
        LET r == add_connection(graph, source_track_id, target_track_id, bidirectional)
            call == [op |-> "add_connection", source |-> source_track_id,
                     target |-> target_track_id, bidirectional |-> bidirectional]
        IN  /\ number_of_edges(r.graph) <= MaxEdges + 1
            /\ graph' = r.graph
            /\ result' = [op |-> call.op, source |-> call.source, target |-> call.target,
                          bidirectional |-> call.bidirectional,
                          again |-> /\ result.op = call.op
                                    /\ result.raised = None
                                    /\ result.source = call.source
                                    /\ result.target = call.target
                                    /\ result.bidirectional = call.bidirectional,
                          raised |-> r.raised]
            /\ UNCHANGED <<track_map, store>>

RemoveConnection ==
    \E source_track_id \in Ids, target_track_id \in Ids :
        LET r == remove_connection(graph, source_track_id, target_track_id)
        IN  /\ graph' = r.graph
            /\ result' = [op |-> "remove_connection", source |-> source_track_id,
                          target |-> target_track_id, raised |-> r.raised]
            /\ UNCHANGED <<track_map, store>>

\* TrackNetwork.from_library_and_connections(library, connections) with the
\* library in use; the network it returns replaces the one in use
FromLibraryAndConnections ==
    \E connections \in ConnectionLists :
        LET r == from_library_and_connections(Library(track_map), <<connections>>)
        IN  /\ graph' = IF r.raised = None THEN r.graph ELSE graph
            /\ result' = [op |-> "from_library_and_connections",
                          connections |-> connections, raised |-> r.raised]
            /\ UNCHANGED <<track_map, store>>

FromLibrary ==
    LET r == from_library(Library(track_map))
    IN  /\ graph' = IF r.raised = None THEN r.graph ELSE graph
        /\ result' = [op |-> "from_library", raised |-> r.raised]
        /\ UNCHANGED <<track_map, store>>

\* cli.py:145-147
GetConnectedTrackIds ==
    \E track_id \in Ids :
        LET r == get_connected_track_ids(graph, track_id)
        IN  /\ result' = [op |-> "get_connected_track_ids", source |-> track_id,
                          raised |-> r.raised, returned |-> r.returned]
            /\ UNCHANGED <<track_map, graph, store>>

NextNetwork ==
    \/ AddConnection
    \/ RemoveConnection
    \/ FromLibraryAndConnections
    \/ FromLibrary
    \/ GetConnectedTrackIds

SpecNetwork == InitNetwork /\ [][NextNetwork]_vars

(***************************************************************************)
(* The calls on a Library.                                                 *)
(***************************************************************************)
\* Library(track_map) over any dict, as LibraryData.to_library builds it
\* from the rows of the store (database.py:64-70)
InitLibrary ==
    /\ track_map \in {Library(d) : d \in TrackMaps}
    /\ graph = DiGraph
    /\ result = [op |-> "Library", raised |-> None]
    /\ library_table = <<>>
    /\ connections_table = <<>>

FromTrackList ==
    \E track_list \in TrackLists :
        LET r == from_track_list(track_list)
        IN  /\ track_map' = IF r.raised = None THEN r.track_map ELSE track_map
            /\ result' = [op |-> "from_track_list", track_list |-> track_list,
                          raised |-> r.raised]
            /\ UNCHANGED <<graph, store>>

AddTrack ==
    \E track \in Tracks :
        LET r == add_track(track_map, track)
        IN  /\ track_map' = r.track_map
            /\ result' = [op |-> "add_track", track |-> track, raised |-> r.raised]
            /\ UNCHANGED <<graph, store>>

RemoveTrackById ==
    \E track_id \in Ids :
        LET r == remove_track_by_id(track_map, track_id)
        IN  /\ track_map' = r.track_map
            /\ result' = [op |-> "remove_track_by_id", track_id |-> track_id,
                          raised |-> r.raised]
            /\ UNCHANGED <<graph, store>>

RemoveTrack ==
    \E track \in Tracks :
        LET r == remove_track(track_map, track)
        IN  /\ track_map' = r.track_map
            /\ result' = [op |-> "remove_track", track |-> track, raised |-> r.raised]
            /\ UNCHANGED <<graph, store>>

\* library = library.extend(other), as library.py:163 and cli.py:250 use it;
\* self_after and other_after are the two argument libraries after the call
Extend ==
    \E other \in OtherLibraries :
        LET r == extend_call(track_map, other)
        IN  /\ track_map' = r.returned
            /\ result' = [op |-> "extend", other |-> other, self_after |-> r.self,
                          other_after |-> r.other, raised |-> None]
            /\ UNCHANGED <<graph, store>>

GetTrack ==
    \E track_id \in Ids :
        LET r == get_track(track_map, track_id)
        IN  /\ result' = [op |-> "get_track", track_id |-> track_id,
                          raised |-> r.raised, returned |-> r.returned]
            /\ UNCHANGED <<track_map, graph, store>>

\* track.hash8 (library.py:16-21)
Hash8 ==
    \E track \in Tracks :
        LET r == hash8(track)
        IN  /\ result' = [op |-> "hash8", track |-> track,
                          raised |-> r.raised, value |-> r.value]
            /\ UNCHANGED <<track_map, graph, store>>

NextLibrary ==
    \/ FromTrackList
    \/ AddTrack
    \/ RemoveTrackById
    \/ RemoveTrack
    \/ Extend
    \/ GetTrack
    \/ Hash8

SpecLibrary == InitLibrary /\ [][NextLibrary]_vars

(***************************************************************************)
(* A TrackNetwork together with its library: the network's calls, the      *)
(* library's add_track, and track_network.library = library.extend(other)  *)
(* (cli.py:250).                                                           *)
(***************************************************************************)
Init == InitNetwork

\* cli.py:247-250  track_network.library = track_network.library.extend(
\* library_playlists); the graph is not touched
ReplaceLibrary ==
    \E S \in SUBSET Ids :
        /\ Cardinality(S) <= MaxOther
        /\ track_map' = extend(track_map, Library(SampleLibrary(S)))
        /\ result' = [op |-> "extend", other |-> SampleLibrary(S), raised |-> None]
        /\ UNCHANGED <<graph, store>>

Next ==
    \/ AddConnection
    \/ RemoveConnection
    \/ AddTrack
    \/ ReplaceLibrary

Spec == Init /\ [][Next]_vars

(***************************************************************************)
(* A library and a network in memory, and the store: the writes and reads  *)
(* of database.py as cli.py:22-35 and example.py:82-96 make them.          *)
(***************************************************************************)
\* a library made by Library(track_map), a network made by TrackNetwork(graph,
\* library) over a graph on the library's ids, and the store after
\* Database.create_tables (example.py:82-83)
InitStore ==
    /\ track_map \in {Library(d) : d \in TrackMaps}
    /\ graph \in GraphsOver(track_map)
    /\ library_table = create_tables.library
    /\ connections_table = create_tables.connections
    /\ result = [op |-> "create_tables", raised |-> None]

\* database.py:18-26  Database(db_name).create_tables() (example.py:82-83)
CreateTables ==
    /\ library_table' = create_tables.library
    /\ connections_table' = create_tables.connections
    /\ result' = [op |-> "create_tables", raised |-> None]
    /\ UNCHANGED <<track_map, graph>>

\* cli.py:59-70  the init_db command, with or without --force and with what
\* the user does at the prompt
InitDb ==
    \E force \in BOOLEAN, reply \in ConfirmReplies :
        LET r == init_db(library_table, connections_table, force, reply)
        IN  /\ library_table' = r.tables.library
            /\ connections_table' = r.tables.connections
            /\ result' = [op |-> "init_db", force |-> force, reply |-> reply,
                          raised |-> r.raised]
            /\ UNCHANGED <<track_map, graph>>

\* cli.py:31-35  save_track_network_to_db (example.py:84-87)
SaveTrackNetworkToDb ==
    LET library_rows == LibraryData_from_library(track_map)
        connection_rows == ConnectionsData_from_connections(TrackNetwork_connections(graph))
    IN  /\ Len(library_table) + Len(library_rows) <= MaxRows
        /\ Len(connections_table) + Len(connection_rows) <= MaxRows
        /\ library_table' = LibraryData_to_sqlite(library_table, library_rows)
        /\ connections_table' = ConnectionsData_to_sqlite(connections_table, connection_rows)
        /\ result' = [op |-> "save_track_network_to_db", raised |-> None,
                      fresh |-> library_table = <<>> /\ connections_table = <<>>]
        /\ UNCHANGED <<track_map, graph>>

\* example.py:86  LibraryData.from_library(library).to_sqlite(db): the library's
\* rows are appended to the library table, the connections table is not touched
LibraryDataToSqlite ==
    LET library_rows == LibraryData_from_library(track_map)
    IN  /\ Len(library_table) + Len(library_rows) <= MaxRows
        /\ library_table' = LibraryData_to_sqlite(library_table, library_rows)
        /\ result' = [op |-> "LibraryData.to_sqlite", raised |-> None,
                      fresh |-> library_table = <<>> /\ connections_table = <<>>]
        /\ UNCHANGED <<track_map, graph, connections_table>>

\* example.py:87  ConnectionsData.from_connections(connections).to_sqlite(db):
\* the connections' rows are appended to the connections table, the library
\* table is not touched; `fresh` says that the connections table was empty and
\* that the library table holds one write made on empty tables
ConnectionsDataToSqlite ==
    LET connection_rows == ConnectionsData_from_connections(TrackNetwork_connections(graph))
    IN  /\ Len(connections_table) + Len(connection_rows) <= MaxRows
        /\ connections_table' = ConnectionsData_to_sqlite(connections_table, connection_rows)
        /\ result' = [op |-> "ConnectionsData.to_sqlite", raised |-> None,
                      fresh |-> /\ connections_table = <<>>
                                /\ result.op = "LibraryData.to_sqlite"
                                /\ result.fresh]
        /\ UNCHANGED <<track_map, graph, library_table>>

\* cli.py:24-26 (example.py:95-96): the library and the connections are read
\* back; `written_once` says that the store holds one write of the library and
\* one of the connections, both made on empty tables
LoadFromDb ==
    /\ result' = [op |-> "load",
                  written_once |->
                      /\ result.op \in {"save_track_network_to_db",
                                        "ConnectionsData.to_sqlite"}
                      /\ result.fresh,
                  library |-> LibraryData_to_library(from_sqlite(library_table)),
                  connections |->
                      ConnectionsData_to_connections(from_sqlite(connections_table)),
                  raised |-> None]
    /\ UNCHANGED <<track_map, graph, store>>

\* cli.py:73-83  the add_track command
CliAddTrack ==
    \E artist \in Artists, title \in Titles :
        LET r == cli_add_track(library_table, connections_table, artist, title)
        IN  /\ library_table' = r.tables.library
            /\ connections_table' = r.tables.connections
            /\ result' = [op |-> "cli_add_track", track |-> Track(artist, title),
                          raised |-> r.raised]
            /\ UNCHANGED <<track_map, graph>>

\* cli.py:98-120  the add_connection command
CliAddConnection ==
    \E source \in Tracks, target \in Tracks, bidirectional \in BOOLEAN :
        LET r == cli_add_connection(library_table, connections_table,
                                    source, target, bidirectional)
        IN  /\ library_table' = r.tables.library
            /\ connections_table' = r.tables.connections
            /\ result' = [op |-> "cli_add_connection", source |-> source,
                          target |-> target, bidirectional |-> bidirectional,
                          raised |-> r.raised]
            /\ UNCHANGED <<track_map, graph>>

\* the store after init_db, beside a sample network in memory that
\* save_track_network_to_db can write to it
InitCli ==
    /\ track_map \in {Library(d) : d \in SampleLibraries}
    /\ graph \in GraphsOver(track_map)
    /\ library_table = init_db(<<>>, <<>>, TRUE, "y").tables.library
    /\ connections_table = init_db(<<>>, <<>>, TRUE, "y").tables.connections
    /\ result = [op |-> "init_db", force |-> TRUE, reply |-> "y", raised |-> None]

\* cli.py:22-28  load_track_network_from_db, as every command but init_db
\* calls it first
LoadTrackNetworkFromDb ==
    LET r == load_track_network_from_db(library_table, connections_table)
    IN  /\ result' = [op |-> "load_track_network_from_db", raised |-> r.raised,
                      library |-> r.library, loaded |-> r.graph]
        /\ UNCHANGED <<track_map, graph, store>>

NextCli ==
    \/ InitDb
    \/ SaveTrackNetworkToDb
    \/ CliAddTrack
    \/ CliAddConnection
    \/ LoadTrackNetworkFromDb

SpecCli == InitCli /\ [][NextCli]_vars

NextStore ==
    \/ CreateTables
    \/ LibraryDataToSqlite
    \/ ConnectionsDataToSqlite
    \/ SaveTrackNetworkToDb
    \/ LoadFromDb

SpecStore == InitStore /\ [][NextStore]_vars

(***************************************************************************)
(* A network with its library, and the export of d3_network_data.py.       *)
(***************************************************************************)
\* the strs given where D3NetworkData wants an int: the numeral of an int
\* and the name of a track
OtherScalars == {StrOfInt(1), StrOfInt(MaxId + 1), Track_str(SampleTrack(1))}

\* the node dicts D3NetworkData is given by from_track_network
NodeDicts ==
    {[id |-> IntValue(i), name |-> Track_str(SampleTrack(i))] : i \in Ids}

\* node dicts with a str as the id, or with an int or a numeral as the name
OtherNodeDicts ==
    {[id |-> v, name |-> Track_str(SampleTrack(1))] : v \in OtherScalars}
    \cup {[id |-> IntValue(1), name |-> v] : v \in {IntValue(5), StrOfInt(5)}}

\* the link dicts D3NetworkData is given by from_track_network
LinkDicts ==
    {[source |-> IntValue(i), target |-> IntValue(j)] : i \in Ids, j \in Ids}

\* link dicts with a str as the source or the target
OtherLinkDicts ==
    {[source |-> v, target |-> IntValue(1)] : v \in OtherScalars}
    \cup {[source |-> IntValue(1), target |-> v] : v \in OtherScalars}

\* the documents given to D3NetworkData: at most MaxId nodes and
\* MaxConnections links, at most one of them with a str where an int is
\* wanted, or with an int or a numeral as a name
NetworkDicts ==
    {[nodes |-> ns, links |-> ls] :
        ns \in SeqsUpTo(NodeDicts, MaxId), ls \in SeqsUpTo(LinkDicts, MaxConnections)}
    \cup {[nodes |-> Append(ns, other), links |-> ls] :
              ns \in SeqsUpTo(NodeDicts, MaxId - 1), other \in OtherNodeDicts,
              ls \in SeqsUpTo(LinkDicts, MaxConnections)}
    \cup {[nodes |-> ns, links |-> Append(ls, other)] :
              ns \in SeqsUpTo(NodeDicts, MaxId),
              ls \in SeqsUpTo(LinkDicts, MaxConnections - 1), other \in OtherLinkDicts}

\* TrackNetwork(graph, library) over a graph on the library's ids
InitExport ==
    /\ track_map \in {Library(d) : d \in SampleLibraries}
    /\ graph \in GraphsOver(track_map)
    /\ result = [op |-> "TrackNetwork", raised |-> None]
    /\ library_table = <<>>
    /\ connections_table = <<>>

\* cli.py:177  D3NetworkData.from_track_network(track_network)
FromTrackNetwork ==
    LET r == from_track_network(graph, track_map)
    IN  /\ result' = [op |-> "from_track_network", raised |-> r.raised,
                      network_dict |-> r.network_dict]
        /\ UNCHANGED <<track_map, graph, store>>

NextExport ==
    \/ FromTrackNetwork
    \/ RemoveTrackById
    \/ AddConnection

SpecExport == InitExport /\ [][NextExport]_vars

\* a node/link document from outside, not yet given to D3NetworkData
InitDocument ==
    /\ track_map = Library(<<>>)
    /\ graph = DiGraph
    /\ library_table = <<>>
    /\ connections_table = <<>>
    /\ \E network_dict \in NetworkDicts :
           result = [op |-> "network_dict", raised |-> None,
                     network_dict |-> network_dict]

\* D3NetworkData(network_dict) on the document
NewD3NetworkData ==
    /\ result.op = "network_dict"
    /\ LET r == D3NetworkData(result.network_dict)
       IN  result' = [op |-> "D3NetworkData", raised |-> r.raised,
                      network_dict |-> r.network_dict]
    /\ UNCHANGED <<track_map, graph, store>>

NextDocument == NewD3NetworkData

SpecDocument == InitDocument /\ [][NextDocument]_vars

(***************************************************************************)
(* A history playlist, read from a file or built from a track map.         *)
(***************************************************************************)
\* the line "#EXTINF:0,<first> - <second>" with its line end
ExtInfLine(first, second) ==
    <<"#", "E", "X", "T", "I", "N", "F", ":", "0", ",">> \o first \o <<" ", "-", " ">> \o second \o <<"\n">>

\* the lines of a playlist file: two plays, the header, a play whose text
\* has no " - ", a line that begins with #EXTINF and has no ",", and a play
\* whose second part is a vertical tab
Lines ==
    {ExtInfLine(<<"A">>, <<"X">>), ExtInfLine(<<"B">>, <<"Y">>), <<"#", "E", "X", "T", "M", "3", "U", "\n">>, <<"#", "E", "X", "T", "I", "N", "F", ":", "0", ",", "A", "\n">>,
     <<"#", "E", "X", "T", "I", "N", "F", "O", "\n">>, ExtInfLine(<<"A">>, <<"\\x0b">>)}

PlaylistFiles == SeqsUpTo(Lines, MaxPlays)

\* "2023-07-0<day>"
DateText(day) == <<"2", "0", "2", "3", "-", "0", "7", "-", "0">> \o <<DecimalDigits[1][day + 1]>>

\* the ways a history file name carries its number: none, "(0)", " (1)", and
\* " (4)" with the four as an Arabic-Indic digit
NumberTexts == <<<<>>, <<"(", "0", ")">>, <<" ", "(", "1", ")">>, <<" ", "(", "\\u0664", ")">>>>

\* "HISTORY 2023-07-0<day><number>.m3u8"
HistoryName(day, number) == <<"H", "I", "S", "T", "O", "R", "Y", " ">> \o DateText(day) \o number \o <<".", "m", "3", "u", "8">>

\* two history file names, a name off the pattern, and a name on the pattern
\* whose date is no day of the calendar
FileNames ==
    {HistoryName(1, <<>>), HistoryName(1, NumberTexts[4]), <<"n", "o", "t", "e", "s", ".", "m", "3", "u", "8">>, <<"H", "I", "S", "T", "O", "R", "Y", " ", "2", "0", "2", "3", "-", "0", "2", "-", "3", "0", ".", "m", "3", "u", "8">>}

\* RekordboxHistoryPlaylist(track_map, name, date, date_file_number)
\* (rekordbox.py:61-74) over the tracks of a sample library, and a file that
\* from_m3u_file can be given
InitPlaylist ==
    /\ \E S \in SUBSET Ids : track_map = Library(SampleLibrary(S))
    /\ graph = DiGraph
    /\ \E file_name \in FileNames, lines \in PlaylistFiles :
           result = [op |-> "RekordboxHistoryPlaylist", file_name |-> file_name,
                     lines |-> lines, raised |-> None]
    /\ library_table = <<>>
    /\ connections_table = <<>>

\* rekordbox.py:76-93  RekordboxHistoryPlaylist.from_m3u_file on the file
FromM3uFile ==
    /\ result.op = "RekordboxHistoryPlaylist"
    /\ \E r \in {RekordboxHistoryPlaylist_from_m3u_file(result.file_name, result.lines)} :
           /\ track_map' = IF r.raised = None THEN r.track_map ELSE track_map
           /\ result' = [op |-> "from_m3u_file", file_name |-> result.file_name,
                         lines |-> result.lines, raised |-> r.raised]
    /\ UNCHANGED <<graph, store>>

\* rekordbox.py:95-101  playlist.transitions()
Transitions ==
    /\ result' = [op |-> "transitions", returned |-> transitions(track_map),
                  raised |-> None]
    /\ UNCHANGED <<track_map, graph, store>>

NextPlaylist ==
    \/ FromM3uFile
    \/ Transitions

SpecPlaylist == InitPlaylist /\ [][NextPlaylist]_vars

(***************************************************************************)
(* A directory of history files and a store, given to                      *)
(* load_rekordbox_histories_since and to the two history commands.         *)
(***************************************************************************)
HistoryFileNames ==
    {HistoryName(day, NumberTexts[k]) : day \in 1..MaxDate, k \in 1..Len(NumberTexts)}

\* the *.m3u8 entries a directory can hold: a name, and a file without plays
\* or with one play
DirectoryEntries ==
    {[name |-> n, lines |-> l] :
        n \in HistoryFileNames \cup (FileNames \ HistoryFileNames),
        l \in {<<<<"#", "E", "X", "T", "M", "3", "U", "\n">>>>, <<<<"#", "E", "X", "T", "M", "3", "U", "\n">>, ExtInfLine(<<"A">>, <<"X">>)>>}}

\* the listings glob can give: at most MaxFiles entries, no name twice
Directories ==
    {q \in SeqsUpTo(DirectoryEntries, MaxFiles) :
        \A i, j \in 1..Len(q) : q[i].name = q[j].name => i = j}

\* no minimum date, or a day the names can carry
MinDates == {<<>>} \cup {<< <<2023, 7, day>> >> : day \in 1..MaxDate}

\* a directory and a minimum date, before the call; the store after init_db,
\* or after one track was written to it
InitHistories ==
    /\ track_map = Library(<<>>)
    /\ graph = DiGraph
    /\ library_table \in {create_tables.library,
                          LibraryData_to_sqlite(create_tables.library,
                              LibraryData_from_library(SampleLibrary({1})))}
    /\ connections_table = create_tables.connections
    /\ \E entries \in Directories, min_date \in MinDates :
           result = [op |-> "histories_dir", raised |-> None, entries |-> entries,
                     min_date |-> min_date, playlists |-> <<>>]

\* rekordbox.py:112-151  load_rekordbox_histories_since(dir, min_date)
LoadRekordboxHistoriesSince ==
    /\ result.op = "histories_dir"
    /\ \E r \in {load_rekordbox_histories_since(result.entries, result.min_date)} :
           result' = [op |-> "load_rekordbox_histories_since", raised |-> r.raised,
                      entries |-> result.entries, min_date |-> result.min_date,
                      playlists |-> r.playlists]
    /\ UNCHANGED <<track_map, graph, store>>

NextHistories == LoadRekordboxHistoriesSince

SpecHistories == InitHistories /\ [][NextHistories]_vars

\* what the user types at the prompts of a command: nothing, or one reply
SurveyReplies == {<<>>} \cup {<<reply>> : reply \in ConfirmReplies}

\* cli.py:233-254  the update_track_network_from_rekordbox_histories command
UpdateTrackNetworkFromRekordboxHistories ==
    /\ result.op = "histories_dir"
    /\ \E replies \in SurveyReplies :
           \E r \in {update_track_network_from_rekordbox_histories(library_table,
                        connections_table, result.entries, result.min_date, replies)} :
               /\ library_table' = r.tables.library
               /\ connections_table' = r.tables.connections
               /\ result' = [op |-> "update_track_network_from_rekordbox_histories",
                             raised |-> r.raised, entries |-> result.entries,
                             min_date |-> result.min_date]
    /\ UNCHANGED <<track_map, graph>>

\* cli.py:197-216  the load_track_network_from_rekordbox_histories command
LoadTrackNetworkFromRekordboxHistories ==
    /\ result.op = "histories_dir"
    /\ \E replies \in SurveyReplies :
           \E r \in {load_track_network_from_rekordbox_histories(library_table,
                        connections_table, result.entries, result.min_date, replies)} :
               /\ library_table' = r.tables.library
               /\ connections_table' = r.tables.connections
               /\ result' = [op |-> "load_track_network_from_rekordbox_histories",
                             raised |-> r.raised, entries |-> result.entries,
                             min_date |-> result.min_date]
    /\ UNCHANGED <<track_map, graph>>

\* the two history commands on the directory and the store
NextCommands ==
    \/ UpdateTrackNetworkFromRekordboxHistories
    \/ LoadTrackNetworkFromRekordboxHistories

SpecCommands == InitHistories /\ [][NextCommands]_vars

(***************************************************************************)
(* The history survey of cli.py:257-282 on a network in memory, before and *)
(* after the network's library is replaced as cli.py:250 replaces it.      *)
(***************************************************************************)
\* RekordboxHistoryPlaylist(track_map, ...) over sample tracks, in id order
Playlists == {Library(SampleLibrary(S)) : S \in SUBSET Ids}

\* the playlists handed to the survey: at least one
PlaylistLists == SeqsUpTo(Playlists, MaxPlaylists) \ {<<>>}

\* a network made by TrackNetwork(graph, library) over a graph on the
\* library's ids, and the store after init_db
InitSurvey ==
    /\ \E S \in SUBSET Ids : track_map = Library(SampleLibrary(S))
    /\ graph \in GraphsOver(track_map)
    /\ library_table = create_tables.library
    /\ connections_table = create_tables.connections
    /\ result = [op |-> "TrackNetwork", raised |-> None]

\* cli.py:250 on the network as it was made
ReplaceLibraryOnce ==
    /\ result.op = "TrackNetwork"
    /\ ReplaceLibrary

\* cli.py:257-263  _add_connections_from_playlists(track_network, playlists,
\* db_name) is called on a network that was not surveyed yet; `asked` are the
\* transitions it will ask for, `replies` the replies given so far, and
\* `replaced` says that the network's library was replaced before
StartSurvey ==
    /\ result.op \in {"TrackNetwork", "extend"}
    /\ \E playlists \in PlaylistLists :
           result' = [op |-> "survey", playlists |-> playlists,
                      asked |-> AllTransitions(playlists), replies |-> <<>>,
                      replaced |-> result.op = "extend", raised |-> None]
    /\ UNCHANGED <<track_map, graph, store>>

\* cli.py:269-279  the next prompt of the survey and the user's reply: a
\* confirmed transition is added to the graph; an exception (the end of the
\* input, Ctrl+C, or the one add_connection raises) ends the function with
\* the edges added so far in the graph and nothing saved
AskTransition ==
    /\ result.op = "survey"
    /\ Len(result.replies) < Len(result.asked)
    /\ \E reply \in ConfirmReplies :
           LET r == confirm_transition(graph, track_map,
                                       result.asked[Len(result.replies) + 1], reply)
           IN  /\ graph' = r.graph
               /\ result' = [result EXCEPT
                                 !.op = IF r.raised = None THEN "survey"
                                        ELSE "add_connections_from_playlists",
                                 !.replies = Append(@, reply),
                                 !.raised = r.raised]
    /\ UNCHANGED <<track_map, store>>

\* cli.py:281-282  after the last transition: the prompt for the save and
\* the user's reply; the function ends
AskSave ==
    /\ result.op = "survey"
    /\ Len(result.replies) = Len(result.asked)
    /\ \E reply \in ConfirmReplies :
           LET r == confirm_save(graph, track_map, reply, library_table,
                                 connections_table)
           IN  /\ library_table' = r.tables.library
               /\ connections_table' = r.tables.connections
               /\ result' = [result EXCEPT
                                 !.op = "add_connections_from_playlists",
                                 !.replies = Append(@, reply),
                                 !.raised = r.raised]
    /\ UNCHANGED <<track_map, graph>>

NextSurvey ==
    \/ ReplaceLibraryOnce
    \/ StartSurvey
    \/ AskTransition
    \/ AskSave

SpecSurvey == InitSurvey /\ [][NextSurvey]_vars

(***************************************************************************)
(* Vocabulary of the properties.                                           *)
(***************************************************************************)
\* the targets of the edges that leave track_id
Successors(G, track_id) == {t \in Nodes(G) : <<track_id, t>> \in Edges(G)}

RECURSIVE Ascending(_)
\* the members of a set of ids, smallest first
Ascending(S) ==
    IF S = {} THEN <<>>
    ELSE LET least == CHOOSE x \in S : \A y \in S : x <= y
         IN  <<least>> \o Ascending(S \ {least})

\* some pair of the list names an id that is not in `ids`
NamesUnknownId(connections, ids) ==
    \E i \in 1..Len(connections) :
        connections[i][1] \notin ids \/ connections[i][2] \notin ids

(***************************************************************************)
(* Properties of TrackNetwork (SpecNetwork).                               *)
(***************************************************************************)

\* C1: add_connection raises whenever its source or its target is not a node
\* of the graph, whichever of the two it is and whatever `bidirectional` is,
\* and the failed call leaves the nodes and the edges as they were.
C1_AddConnectionUnknownIdFails ==
    [][(/\ result'.op = "add_connection"
        /\ (result'.source \notin Nodes(graph) \/ result'.target \notin Nodes(graph)))
       => (/\ result'.raised = "ValueError"
           /\ Nodes(graph') = Nodes(graph)
           /\ Edges(graph') = Edges(graph))]_vars

\* C1 witness: a bidirectional add_connection from a node to an id that is
\* not a node has failed, in a network that still has no edge
C1_Witness ==
    /\ result.op = "add_connection"
    /\ result.raised = "ValueError"
    /\ result.bidirectional
    /\ result.source \in Nodes(graph)
    /\ result.target \notin Nodes(graph)
    /\ n_connections(graph) = 0

\* C3: after add_connection(a, b, bidirectional=True) has succeeded, both
\* a->b and b->a are edges: b is a successor of a and a is a successor of b.
C3_BidirectionalAddsBothEdges ==
    (result.op = "add_connection" /\ result.raised = None /\ result.bidirectional)
    => (/\ <<result.source, result.target>> \in Edges(graph)
        /\ <<result.target, result.source>> \in Edges(graph)
        /\ result.target \in Successors(graph, result.source)
        /\ result.source \in Successors(graph, result.target))

\* C3 witness: a bidirectional add_connection between two distinct nodes succeeded
C3_Witness ==
    /\ result.op = "add_connection"
    /\ result.raised = None
    /\ result.bidirectional
    /\ result.source # result.target

\* C4: for two distinct nodes a and b with no edge b->a, a successful
\* add_connection(a, b) without `bidirectional` adds the edge a->b and nothing
\* else: b->a is still absent, the nodes and all other edges are unchanged.
C4_OneWayAddsOnlyForwardEdge ==
    [][(/\ result'.op = "add_connection"
        /\ result'.raised = None
        /\ ~result'.bidirectional
        /\ result'.source # result'.target
        /\ <<result'.target, result'.source>> \notin Edges(graph))
       => (/\ Edges(graph') = Edges(graph) \cup {<<result'.source, result'.target>>}
           /\ <<result'.target, result'.source>> \notin Edges(graph')
           /\ result'.source \notin Successors(graph', result'.target)
           /\ Nodes(graph') = Nodes(graph))]_vars

\* C4 witness: a one-way add_connection(a, b) succeeded in a graph that holds
\* another edge and does not hold b->a
C4_Witness ==
    /\ result.op = "add_connection"
    /\ result.raised = None
    /\ ~result.bidirectional
    /\ result.source # result.target
    /\ <<result.target, result.source>> \notin Edges(graph)
    /\ n_connections(graph) >= 2

\* C5: add_connection called again with the arguments of the successful call
\* before it raises nothing and leaves the edge set and n_connections as the
\* first call left them.
C5_AddConnectionIdempotent ==
    [][(result'.op = "add_connection" /\ result'.again)
       => (/\ result'.raised = None
           /\ Edges(graph') = Edges(graph)
           /\ n_connections(graph') = n_connections(graph))]_vars

\* C5 witness: a bidirectional add_connection was repeated with the same arguments
C5_Witness ==
    /\ result.op = "add_connection"
    /\ result.again
    /\ result.bidirectional
    /\ result.source # result.target

\* C6: from_library_and_connections fails, and returns no network, whenever a
\* connection names an id that is not an id of the library; a network it does
\* return has no node outside the library's ids.
C6_UnknownConnectionIdFails ==
    result.op = "from_library_and_connections"
    => (/\ NamesUnknownId(result.connections, Keys(track_map)) => result.raised # None
        /\ result.raised = None => Nodes(graph) \subseteq Keys(track_map))

\* C6 witness: the constructor was given a connection to an id the library lacks
C6_Witness ==
    /\ result.op = "from_library_and_connections"
    /\ NamesUnknownId(result.connections, Keys(track_map))
    /\ track_map # <<>>
    /\ result.raised # None

\* C7: the neighbor query the CLI calls returns, for a node s, exactly the
\* targets of the edges s->t, in ascending id order.
C7_NeighborsAreAscendingSuccessors ==
    result.op = "get_connected_track_ids"
    => (/\ result.raised = None
        /\ result.returned = Ascending(Successors(graph, result.source)))

\* C8: remove_connection raises whenever its source or its target is not a
\* node of the graph, and the failed call leaves nodes and edges as they were.
C8_RemoveConnectionUnknownIdFails ==
    [][(/\ result'.op = "remove_connection"
        /\ (result'.source \notin Nodes(graph) \/ result'.target \notin Nodes(graph)))
       => (/\ result'.raised = "ValueError"
           /\ Nodes(graph') = Nodes(graph)
           /\ Edges(graph') = Edges(graph))]_vars

\* C8 witness: remove_connection from a node to an id that is not a node failed
C8_Witness ==
    /\ result.op = "remove_connection"
    /\ result.raised = "ValueError"
    /\ result.source \in Nodes(graph)
    /\ result.target \notin Nodes(graph)

(***************************************************************************)
(* Properties of a TrackNetwork and its library (Spec).                    *)
(***************************************************************************)

\* C2: in every state reached from a network built over a library by
\* add_connection, remove_connection, add_track on the network's library and
\* the replacement of the library by library.extend(other), the nodes of the
\* graph are the ids of the network's library.
C2_NodesAreLibraryIds == Nodes(graph) = Keys(track_map)

(***************************************************************************)
(* Properties of Library (SpecLibrary).                                    *)
(***************************************************************************)

\* C9: add_track of a track that is equal, by artist and title, to one the
\* library holds raises DuplicateTrackError and leaves the mapping, and so
\* its size, unchanged.
C9_AddTrackDuplicateFails ==
    [][(result'.op = "add_track" /\ result'.track \in Values(track_map))
       => (/\ result'.raised = "DuplicateTrackError"
           /\ track_map' = track_map
           /\ Len(track_map') = Len(track_map))]_vars

\* C9 witness: add_track of a held track was rejected
C9_Witness ==
    /\ result.op = "add_track"
    /\ result.raised = "DuplicateTrackError"
    /\ result.track \in Values(track_map)

\* C10: from_track_list returns a library, and in it, as in every library
\* reached from it, every key is the identifier computed from the artist and
\* title of the track stored under that key.
C10_KeysAreComputedIdentifiers ==
    result.op = "from_track_list"
    => (/\ result.raised = None
        /\ \A i \in 1..Len(track_map) :
               hash8(track_map[i].track) = [raised |-> None, value |-> track_map[i].id])

\* C11: get_track(id), like library[id], raises MissingTrackError when id is
\* not a key of the library and returns the stored Track when it is.
C11_GetTrackMissingTrackError ==
    result.op = "get_track"
    => (/\ result.track_id \notin Keys(track_map) => result.raised = "MissingTrackError"
        /\ result.track_id \in Keys(track_map)
           => (result.raised = None /\ result.returned = Get(track_map, result.track_id)))

\* C12: remove_track_by_id(id) raises MissingTrackError and leaves the mapping
\* unchanged when id is not a key; when it is a key, exactly that entry goes
\* and every other entry stays, with its track.
C12_RemoveTrackById ==
    [][result'.op = "remove_track_by_id"
       => (/\ result'.track_id \notin Keys(track_map)
              => (result'.raised = "MissingTrackError" /\ track_map' = track_map)
           /\ result'.track_id \in Keys(track_map)
              => (/\ result'.raised = None
                  /\ Keys(track_map') = Keys(track_map) \ {result'.track_id}
                  /\ \A k \in Keys(track_map') : Get(track_map', k) = Get(track_map, k)))]_vars

\* C12 witness: an entry was removed from a library that keeps another entry
C12_Witness ==
    /\ result.op = "remove_track_by_id"
    /\ result.raised = None
    /\ track_map # <<>>

\* no track occurs twice in the list
NoDuplicateTracks(track_list) ==
    \A i, j \in 1..Len(track_list) : track_list[i] = track_list[j] => i = j

\* C13: from_track_list of a list without duplicate (artist, title) pairs
\* gives a library in which, for every track of the list, the id found by
\* get_track_id_from_artist_title leads get_track back to that artist and
\* title; a pair that is not in the library gives MissingTrackError.
C13_LookupFindsListedTracks ==
    (result.op = "from_track_list" /\ NoDuplicateTracks(result.track_list))
    => (/\ result.raised = None
        /\ \A i \in 1..Len(result.track_list) :
               LET t == result.track_list[i]
                   found == get_track_id_from_artist_title(track_map, t.artist, t.title)
               IN  /\ found.raised = None
                   /\ get_track(track_map, found.returned).returned = t
        /\ \A t \in Tracks \ Values(track_map) :
               get_track_id_from_artist_title(track_map, t.artist, t.title).raised
                   = "MissingTrackError")

\* C14: extend(other) returns a library whose keys are the keys of both, in
\* which a key of other holds other's track and a key of self alone holds
\* self's track; the call changes neither self's nor other's mapping.
C14_ExtendUnionOtherWins ==
    [][result'.op = "extend"
       => (/\ Keys(track_map') = Keys(track_map) \cup Keys(result'.other)
           /\ \A k \in Keys(result'.other) : Get(track_map', k) = Get(result'.other, k)
           /\ \A k \in Keys(track_map) \ Keys(result'.other) :
                  Get(track_map', k) = Get(track_map, k)
           /\ result'.self_after = track_map
           /\ result'.other_after = result'.other)]_vars

\* C14 witness: extend met a key that both libraries hold with different
\* tracks, and a key that self alone holds
C14_Witness ==
    /\ result.op = "extend"
    /\ \E k \in Keys(result.self_after) \cap Keys(result.other) :
           Get(result.self_after, k) # Get(result.other, k)
    /\ Keys(result.self_after) \ Keys(result.other) # {}

\* C15: the track identifier hash8 is an integer computed from the artist and
\* the title: evaluating it on a track returns a number and raises nothing.
C15_Hash8IsAnInteger ==
    result.op = "hash8"
    => (/\ result.raised = None
        /\ result.value \in Nat)

(***************************************************************************)
(* Properties of the store (SpecStore).                                    *)
(***************************************************************************)
\* a dict as a set of (id, artist, title)
Mapping(d) == {<<d[i].id, d[i].track.artist, d[i].track.title>> : i \in 1..Len(d)}

\* C16: a library and a network's connections written to a store whose tables
\* were empty, and then read back, give the same id -> (artist, title)
\* mapping and the same set of (source, target) pairs.
C16_StoreRoundTrip ==
    (result.op = "load" /\ result.written_once)
    => (/\ result.raised = None
        /\ Mapping(result.library) = Mapping(track_map)
        /\ Keys(result.library) = Keys(track_map)
        /\ {result.connections[i] : i \in 1..Len(result.connections)} = Edges(graph)
        /\ Len(result.connections) = Len(TrackNetwork_connections(graph)))

\* C16 witness: a library of two tracks and a network with an edge came back
C16_Witness ==
    /\ result.op = "load"
    /\ result.written_once
    /\ Len(track_map) >= 2
    /\ Edges(graph) # {}

(***************************************************************************)
(* Properties of the export (SpecExport, SpecDocument).                    *)
(***************************************************************************)
\* how many items of the sequence q satisfy the test
Count(q, Test(_)) == Cardinality({i \in 1..Len(q) : Test(q[i])})

\* C18: from_track_network gives, for every network, a document in which
\* every edge is a link exactly once, every node id is the id of exactly one
\* node, every link and node comes from the network, and a node's name is
\* "<artist> - <title>" of the library's track with that id.
C18_ExportListsNodesAndLinksOnce ==
    result.op = "from_track_network"
    => LET doc == result.network_dict
       IN  /\ result.raised = None
           /\ \A e \in Edges(graph) :
                  Count(doc.links, LAMBDA l : l.source = IntValue(e[1])
                                              /\ l.target = IntValue(e[2])) = 1
           /\ Len(doc.links) = Len(graph.edges)
           /\ \A n \in Nodes(graph) :
                  Count(doc.nodes, LAMBDA x : x.id = IntValue(n)) = 1
           /\ Len(doc.nodes) = Len(graph.nodes)
           /\ \A i \in 1..Len(doc.nodes) :
                  doc.nodes[i].name = Track_str(Get(track_map, doc.nodes[i].id.int))

\* the two values are one id: the same int, be it given as an int or as its
\* numeral
SameId(a, b) == IsIntField(a) /\ IsIntField(b) /\ a.int = b.int

\* a link of the document names, as source or target, no id of its node list
HasDanglingLink(doc) ==
    \E i \in 1..Len(doc.links) :
        \/ \A j \in 1..Len(doc.nodes) : ~SameId(doc.nodes[j].id, doc.links[i].source)
        \/ \A j \in 1..Len(doc.nodes) : ~SameId(doc.nodes[j].id, doc.links[i].target)

\* C19: the construction of a D3NetworkData rejects every document with a
\* link whose source or target is not the id of a node of the document.
C19_DanglingLinkRejected ==
    (result.op = "D3NetworkData" /\ HasDanglingLink(result.network_dict))
    => result.raised # None

(***************************************************************************)
(* Properties of the CLI commands on the store (SpecCli).                  *)
(***************************************************************************)
\* the library table holds one row per id and the connections table one row
\* per (source, target)
OneRowEach(lib_table, conn_table) ==
    /\ \A i, j \in 1..Len(lib_table) : lib_table[i].id = lib_table[j].id => i = j
    /\ \A i, j \in 1..Len(conn_table) : conn_table[i] = conn_table[j] => i = j

\* the tracks the library table holds
StoredTracks(lib_table) == Values(LibraryData_to_library(lib_table))

\* C17: on a store with one row per library entry and one row per directed
\* edge (as init_db leaves it), the add_track command with a track the store
\* lacks and the add_connection command between two stored tracks succeed,
\* and after either command the store again holds one row per library entry
\* and one row per directed edge.
C17_OneRowPerEntryAndEdge ==
    [][ (/\ result'.op \in {"cli_add_track", "cli_add_connection"}
         /\ OneRowEach(library_table, connections_table))
        => (/\ (result'.op = "cli_add_track"
                    /\ result'.track \notin StoredTracks(library_table))
               => (/\ result'.raised = None
                   /\ result'.track \in StoredTracks(library_table'))
            /\ (result'.op = "cli_add_connection"
                    /\ result'.source \in StoredTracks(library_table)
                    /\ result'.target \in StoredTracks(library_table))
               => result'.raised = None
            /\ OneRowEach(library_table', connections_table')) ]_vars

(***************************************************************************)
(* Properties of the history playlists (SpecPlaylist).                     *)
(***************************************************************************)
\* the texts a play line of the files names a track by
PlayTexts == {<<"A">>, <<"B">>, <<"X">>, <<"Y">>}

\* a play line "#EXTINF:0,<first> - <second>"
IsPlay(line) ==
    \E first \in PlayTexts, second \in PlayTexts : line = ExtInfLine(first, second)

\* the track of a play line
PlayOf(line) ==
    LET named == CHOOSE pair \in PlayTexts \X PlayTexts :
                     line = ExtInfLine(pair[1], pair[2])
    IN  Track(named[1], named[2])

\* every line of the file is a play line or no #EXTINF line at all
WellFormed(lines) ==
    \A i \in 1..Len(lines) : IsPlay(lines[i]) \/ ~StartsWith(lines[i], <<"#", "E", "X", "T", "I", "N", "F">>)

RECURSIVE Plays(_)
\* the tracks of the play lines, in file order
Plays(lines) ==
    IF lines = <<>> THEN <<>>
    ELSE IF IsPlay(Head(lines))
    THEN <<PlayOf(Head(lines))>> \o Plays(Tail(lines))
    ELSE Plays(Tail(lines))

\* the pairs of neighbours of a sequence, in order
AdjacentPairs(q) ==
    [i \in 1..(IF Len(q) = 0 THEN 0 ELSE Len(q) - 1) |-> <<q[i], q[i + 1]>>]

\* the name is "HISTORY <date>", a number or none, ".m3u8"
IsHistoryName(name) == name \in HistoryFileNames

\* the day and the number such a name carries; without a number it counts as 0
DayOf(name) ==
    CHOOSE day \in 1..MaxDate :
        \E k \in 1..Len(NumberTexts) : name = HistoryName(day, NumberTexts[k])

NumberOf(name) ==
    LET k == CHOOSE k \in 1..Len(NumberTexts) :
                 \E day \in 1..MaxDate : name = HistoryName(day, NumberTexts[k])
    IN  <<0, 0, 1, 4>>[k]

\* C20: a history playlist read from a well-formed file with a history file
\* name is built, and its transitions() are exactly the adjacent pairs of the
\* file's plays in order, also when a track is played more than once.
C20_TransitionsAreAdjacentPlays ==
    (/\ result.op = "from_m3u_file"
     /\ WellFormed(result.lines)
     /\ IsHistoryName(result.file_name))
    => (/\ result.raised = None
        /\ transitions(track_map) = AdjacentPairs(Plays(result.lines)))

(***************************************************************************)
(* Properties of load_rekordbox_histories_since (SpecHistories).           *)
(***************************************************************************)
\* the entry is a history file dated min_date or later
Passes(entry, min_date) ==
    /\ IsHistoryName(entry.name)
    /\ min_date # <<>> => DayOf(entry.name) >= min_date[1][3]

\* C21: on a directory of history files, load_rekordbox_histories_since
\* raises when no file is dated min_date or later, and otherwise returns one
\* playlist per file dated min_date or later (every file when min_date is
\* None), in ascending order of (date, number), a missing number being 0.
C21_HistoriesSinceSortedByDateAndNumber ==
    (/\ result.op = "load_rekordbox_histories_since"
     /\ \A i \in 1..Len(result.entries) : IsHistoryName(result.entries[i].name))
    => LET passing == {i \in 1..Len(result.entries) :
                          Passes(result.entries[i], result.min_date)}
           loaded == result.playlists
       IN  IF passing = {} THEN result.raised # None
           ELSE /\ result.raised = None
                /\ Len(loaded) = Cardinality(passing)
                /\ \A i \in passing :
                       \E k \in 1..Len(loaded) : loaded[k].name = result.entries[i].name
                /\ \A k \in 1..(Len(loaded) - 1) :
                       \/ DayOf(loaded[k].name) < DayOf(loaded[k + 1].name)
                       \/ /\ DayOf(loaded[k].name) = DayOf(loaded[k + 1].name)
                          /\ NumberOf(loaded[k].name) <= NumberOf(loaded[k + 1].name)

\* C22: an add_track command whose track is already stored, and an
\* add_connection command one of whose tracks is not stored, fail and leave
\* the rows of the library table and of the connections table as they were.
C22_FailedCommandWritesNothing ==
    [][ (\/ /\ result'.op = "cli_add_track"
            /\ result'.track \in StoredTracks(library_table)
         \/ /\ result'.op = "cli_add_connection"
            /\ \/ result'.source \notin StoredTracks(library_table)
               \/ result'.target \notin StoredTracks(library_table))
        => (/\ result'.raised # None
            /\ library_table' = library_table
            /\ connections_table' = connections_table) ]_vars

\* C22 witness: add_track of a stored track has failed on a store that holds
\* rows in both tables
C22_Witness ==
    /\ result.op = "cli_add_track"
    /\ result.track \in StoredTracks(library_table)
    /\ result.raised # None
    /\ connections_table # <<>>

(***************************************************************************)
(* Properties of the history survey (SpecSurvey).                          *)
(***************************************************************************)
\* the transitions the user has confirmed, as (start, end) pairs of tracks
Confirmed(asked, replies) ==
    {asked[k] : k \in {i \in 1..Len(asked) : i <= Len(replies) /\ replies[i] = "y"}}

\* the id the network's library finds for the track
IdOf(track) == get_track_id_from_track(track_map, track).returned

\* the tracks the playlists hold
PlaylistTracks(playlists) ==
    UNION {Values(playlists[i]) : i \in 1..Len(playlists)}

\* C23: in the survey of a network whose library holds every track of the
\* playlists, be it the library the network was made with or the library
\* that replaced it, every transition (start, end) the user has confirmed is
\* an edge id(start) -> id(end) of the network: after each reply, and when
\* the function has ended.
C23_ConfirmedTransitionsAreEdges ==
    (/\ result.op \in {"survey", "add_connections_from_playlists"}
     /\ PlaylistTracks(result.playlists) \subseteq Values(track_map))
    => \A t \in Confirmed(result.asked, result.replies) :
           <<IdOf(t[1]), IdOf(t[2])>> \in Edges(graph)

(***************************************************************************)
(* Further properties of a TrackNetwork (SpecNetwork).                     *)
(***************************************************************************)
\* C24: remove_connection between two nodes raises when the graph has no
\* edge from the source to the target, and leaves nodes and edges as they
\* were; when the edge is there it removes that edge alone: the reverse edge,
\* every other edge and every node stay.
C24_RemoveConnectionRemovesOneEdge ==
    [][(/\ result'.op = "remove_connection"
        /\ result'.source \in Nodes(graph)
        /\ result'.target \in Nodes(graph))
       => IF <<result'.source, result'.target>> \in Edges(graph)
          THEN /\ result'.raised = None
               /\ Nodes(graph') = Nodes(graph)
               /\ Edges(graph') = Edges(graph) \ {<<result'.source, result'.target>>}
          ELSE /\ result'.raised # None
               /\ Nodes(graph') = Nodes(graph)
               /\ Edges(graph') = Edges(graph)]_vars

\* C24 witness: an edge was removed and its reverse edge is still there
C24_Witness ==
    /\ result.op = "remove_connection"
    /\ result.raised = None
    /\ result.source # result.target
    /\ <<result.source, result.target>> \notin Edges(graph)
    /\ <<result.target, result.source>> \in Edges(graph)

\* the (source, target) pairs the connections table holds
StoredEdges(conn_table) ==
    {<<conn_table[i].source_track_id, conn_table[i].target_track_id>> :
        i \in 1..Len(conn_table)}

\* C25: load_track_network_from_db on a store written after init_db returns
\* a network whose library holds exactly the stored tracks and whose edges
\* are exactly the stored directed connections, however often a row was
\* written.
C25_LoadReturnsStoredNetwork ==
    result.op = "load_track_network_from_db"
    => (/\ result.raised = None
        /\ Values(result.library) = StoredTracks(library_table)
        /\ Nodes(result.loaded) = Keys(result.library)
        /\ Edges(result.loaded) = StoredEdges(connections_table))

====
